---- MODULE Spec2Model ----
(***************************************************************************)
(* A model of egui-sgr's AnsiParser: the three escape-sequence patterns,   *)
(* the stripping pass, the CSI segmenter (parse_sgr), the SGR token        *)
(* dispatcher (process_sgr_sequence) and the colour converters.            *)
(*                                                                         *)
(* Text is a sequence of one-character strings; the control characters     *)
(* 0x1B and 0x07 are the strings "ESC" and "BEL".  Offsets are 0-based as  *)
(* in the source: the character at offset k of s is s[k+1].  A Color32 is  *)
(* the triple <<r, g, b>>; Option<T> is <<>> (None) or <<v>> (Some(v)).    *)
(***************************************************************************)
EXTENDS Integers, Sequences, FiniteSets, TLC

VARIABLES
    pc,          \* "idle" | "scan" | "sgr" | "done": where the parser is
    input,       \* the argument of the running (or last) parse call
    cleaned,     \* parse_sgr's input: the text after stripping
    last_end,    \* parse_sgr's last_end
    result,      \* parse_sgr's result vector (the returned runs at "done")
    current_fg,  \* AnsiParser.current_fg
    current_bg,  \* AnsiParser.current_bg
    codes,       \* process_sgr_sequence's codes
    i,           \* process_sgr_sequence's i
    entry_self,  \* history: the parser's fields when the running call began
    call,        \* the running call of a free function, <<>> if there is none
    ret          \* what that call returned

vars ==
    <<pc, input, cleaned, last_end, result, current_fg, current_bg, codes, i,
      entry_self, call, ret>>

----------------------------------------------------------------------------
(* Characters and character classes of the three patterns.                 *)

ESC == "ESC"
BEL == "BEL"

DigitChars == {"0", "1", "2", "3", "4", "5", "6", "7", "8", "9"}

UpperLetters ==
    {"A", "B", "C", "D", "E", "F", "G", "H", "I", "J", "K", "L", "M",
     "N", "O", "P", "Q", "R", "S", "T", "U", "V", "W", "X", "Y", "Z"}

LowerLetters ==
    {"a", "b", "c", "d", "e", "f", "g", "h", "i", "j", "k", "l", "m",
     "n", "o", "p", "q", "r", "s", "t", "u", "v", "w", "x", "y", "z"}

\* [0-9;] of CSI_REGEX
CsiParamChars == DigitChars \cup {";"}

\* [A-Za-z@] of CSI_REGEX
CsiFinalBytes == UpperLetters \cup LowerLetters \cup {"@"}

\* a mutant of OscBodyStop: ESC does not end the body of an OSC sequence
OscBodyStop_bel_only == {BEL}

\* [^\x07\x1b] of OSC_REGEX is every character outside this set
OscBodyStop == {BEL, ESC}

\* [\x40-\x5A\x5E\x5F] of OTHER_ESC_REGEX
OtherEscBytes == {"@"} \cup UpperLetters \cup {"^", "_"}

None == <<>>
Some(v) == <<v>>

\* what a pattern that does not match gives in place of an offset
NoMatch == 0 - 1

----------------------------------------------------------------------------
(* The three patterns, each as "the end offset of the match that starts at *)
(* offset p, or NoMatch".  The patterns are matched greedily; a class and  *)
(* what follows it are disjoint in each, so the greedy run is the match.   *)

\* the offset just past the longest run of characters of s, from offset q on,
\* that are in (inside = TRUE) or outside (inside = FALSE) the class
RECURSIVE RunEnd(_, _, _, _)
RunEnd(s, q, class, inside) ==
    IF q >= Len(s) \/ ((s[q + 1] \in class) # inside) THEN q
    ELSE RunEnd(s, q + 1, class, inside)

\* \x1b\[([0-9;]*)([A-Za-z@])
CsiEndAt(s, p) ==
    IF p + 2 <= Len(s) /\ s[p + 1] = ESC /\ s[p + 2] = "["
    THEN LET e == RunEnd(s, p + 2, CsiParamChars, TRUE)
         IN  IF e < Len(s) /\ s[e + 1] \in CsiFinalBytes THEN e + 1 ELSE NoMatch
    ELSE NoMatch

\* a mutant of OscEndAt: no match without a terminator
OscEndAt_needs_terminator(s, p) ==
    IF p + 2 <= Len(s) /\ s[p + 1] = ESC /\ s[p + 2] = "]"
    THEN LET e == RunEnd(s, p + 2, OscBodyStop, FALSE)
         IN  IF e < Len(s) /\ s[e + 1] = BEL THEN e + 1
             ELSE IF e + 2 <= Len(s) /\ s[e + 1] = ESC /\ s[e + 2] = "\\" THEN e + 2
             ELSE NoMatch
    ELSE NoMatch

\* a mutant of OscEndAt: the terminator is left in the text
OscEndAt_before_terminator(s, p) ==
    IF p + 2 <= Len(s) /\ s[p + 1] = ESC /\ s[p + 2] = "]"
    THEN RunEnd(s, p + 2, OscBodyStop, FALSE)
    ELSE NoMatch

\* \x1b\][^\x07\x1b]*(?:\x07|\x1b\\)?
OscEndAt(s, p) ==
    IF p + 2 <= Len(s) /\ s[p + 1] = ESC /\ s[p + 2] = "]"
    THEN LET e == RunEnd(s, p + 2, OscBodyStop, FALSE)
         IN  IF e < Len(s) /\ s[e + 1] = BEL THEN e + 1
             ELSE IF e + 2 <= Len(s) /\ s[e + 1] = ESC /\ s[e + 2] = "\\" THEN e + 2
             ELSE e
    ELSE NoMatch

\* a mutant of OtherEscEndAt: the character after ESC is left in the text
OtherEscEndAt_escape_only(s, p) ==
    IF p + 2 <= Len(s) /\ s[p + 1] = ESC /\ s[p + 2] \in OtherEscBytes
    THEN p + 1
    ELSE NoMatch

\* \x1b[\x40-\x5A\x5E\x5F]
OtherEscEndAt(s, p) ==
    IF p + 2 <= Len(s) /\ s[p + 1] = ESC /\ s[p + 2] \in OtherEscBytes
    THEN p + 2
    ELSE NoMatch

\* OSC_REGEX.replace_all(s, ""), from offset p on: the matches are taken left
\* to right and do not overlap
RECURSIVE RemoveOscFrom(_, _)
RemoveOscFrom(s, p) ==
    IF p >= Len(s) THEN <<>>
    ELSE IF OscEndAt(s, p) # NoMatch THEN RemoveOscFrom(s, OscEndAt(s, p))
    ELSE <<s[p + 1]>> \o RemoveOscFrom(s, p + 1)

\* OTHER_ESC_REGEX.replace_all(s, ""), from offset p on
RECURSIVE RemoveOtherEscFrom(_, _)
RemoveOtherEscFrom(s, p) ==
    IF p >= Len(s) THEN <<>>
    ELSE IF OtherEscEndAt(s, p) # NoMatch THEN RemoveOtherEscFrom(s, OtherEscEndAt(s, p))
    ELSE <<s[p + 1]>> \o RemoveOtherEscFrom(s, p + 1)

\* a mutant of strip_non_sgr_sequences: the other-escape sequences are removed
\* first
strip_non_sgr_sequences_other_first(inp) ==
    RemoveOscFrom(RemoveOtherEscFrom(inp, 0), 0)

\* AnsiParser::strip_non_sgr_sequences
strip_non_sgr_sequences(inp) ==
    RemoveOtherEscFrom(RemoveOscFrom(inp, 0), 0)

\* the start offset of the next match of CSI_REGEX.captures_iter at or after
\* offset from, or NoMatch: the leftmost offset where the pattern matches
RECURSIVE CsiStart(_, _)
CsiStart(s, from) ==
    IF from >= Len(s) THEN NoMatch
    ELSE IF CsiEndAt(s, from) # NoMatch THEN from
    ELSE CsiStart(s, from + 1)

\* the capture groups of the match that starts at offset p:
\* cap.get(0).start(), cap.get(0).end(), cap.get(1), cap.get(2)
CsiCapture(s, p) ==
    LET e == CsiEndAt(s, p)
    IN  [start |-> p, end |-> e,
         params |-> SubSeq(s, p + 3, e - 1),
         final_byte |-> s[e]]

----------------------------------------------------------------------------
(* Colours and the converters.                                             *)

Color32_BLACK  == <<0, 0, 0>>
Color32_RED    == <<255, 0, 0>>
Color32_GREEN  == <<0, 255, 0>>
Color32_YELLOW == <<255, 255, 0>>
Color32_BLUE   == <<0, 0, 255>>
Color32_WHITE  == <<255, 255, 255>>

\* a mutant of from_rgb: the channels in the order blue, green, red
from_rgb_reversed(r, g, b) == <<b, g, r>>

\* Color32::from_rgb
from_rgb(r, g, b) == <<r, g, b>>

\* u8 arithmetic
U8(x) == x % 256

\* four_bit::COLORS
COLORS ==
    << Color32_BLACK, Color32_RED, Color32_GREEN, Color32_YELLOW, Color32_BLUE,
       from_rgb(255, 0, 255), from_rgb(0, 255, 255), from_rgb(255, 255, 255),
       from_rgb(128, 128, 128), from_rgb(255, 128, 128), from_rgb(128, 255, 128),
       from_rgb(255, 255, 128), from_rgb(128, 128, 255), from_rgb(255, 128, 255),
       from_rgb(128, 255, 255), Color32_WHITE >>

\* a mutant of ansi_color_to_egui: the table indexed from 1
ansi_color_to_egui_from_one(color_code) ==
    IF color_code < 16 /\ color_code > 0 THEN COLORS[color_code] ELSE Color32_BLACK

\* four_bit::ansi_color_to_egui
ansi_color_to_egui(color_code) ==
    IF color_code < 16 THEN COLORS[color_code + 1] ELSE Color32_BLACK

\* a mutant of convert_component: steps of 50, which pass u8::MAX at c = 5
convert_component_overflows(c) == IF c = 0 THEN 0 ELSE U8(55 + U8(c * 50))

\* a mutant of convert_component: six even steps
convert_component_even(c) == U8(c * 51)

\* the closure convert_component of ansi_256_to_egui
convert_component(c) == IF c = 0 THEN 0 ELSE U8(55 + c * 40)

\* a mutant of grayscale: the formula at 255 too
grayscale_no_special_case(color_code) ==
    LET gray == U8(8 + U8(U8(color_code - 232) * 10))
    IN  from_rgb(gray, gray, gray)

\* the arm 232..=255 of ansi_256_to_egui
grayscale(color_code) ==
    LET gray == IF color_code = 255 THEN 248
                ELSE U8(8 + U8(U8(color_code - 232) * 10))
    IN  from_rgb(gray, gray, gray)

\* eight_bit::ansi_256_to_egui
ansi_256_to_egui(color_code) ==
    CASE color_code = 0 -> Color32_BLACK
      [] color_code = 1 -> Color32_RED
      [] color_code = 2 -> Color32_GREEN
      [] color_code = 3 -> Color32_YELLOW
      [] color_code = 4 -> Color32_BLUE
      [] color_code = 5 -> from_rgb(255, 0, 255)
      [] color_code = 6 -> from_rgb(0, 255, 255)
      [] color_code = 7 -> from_rgb(192, 192, 192)
      [] color_code = 8 -> from_rgb(128, 128, 128)
      [] color_code = 9 -> from_rgb(255, 128, 128)
      [] color_code = 10 -> from_rgb(128, 255, 128)
      [] color_code = 11 -> from_rgb(255, 255, 128)
      [] color_code = 12 -> from_rgb(128, 128, 255)
      [] color_code = 13 -> from_rgb(255, 128, 255)
      [] color_code = 14 -> from_rgb(128, 255, 255)
      [] color_code = 15 -> Color32_WHITE
      [] color_code \in 16..231 ->
            LET code == U8(color_code - 16)
                r == code \div 36
                g == (code % 36) \div 6
                b == code % 6
            IN  from_rgb(convert_component(r), convert_component(g),
                         convert_component(b))
      [] color_code \in 232..255 -> grayscale(color_code)

----------------------------------------------------------------------------
(* Tokens: str::split(';') and str::parse::<u8>().                         *)

\* the value of one decimal digit
DigitValue(c) ==
    CASE c = "0" -> 0 [] c = "1" -> 1 [] c = "2" -> 2 [] c = "3" -> 3
      [] c = "4" -> 4 [] c = "5" -> 5 [] c = "6" -> 6 [] c = "7" -> 7
      [] c = "8" -> 8 [] c = "9" -> 9

\* the decimal value of a string of digits
RECURSIVE DecValue(_)
DecValue(t) ==
    IF t = <<>> THEN 0
    ELSE DecValue(SubSeq(t, 1, Len(t) - 1)) * 10 + DigitValue(t[Len(t)])

\* a mutant of parse_u8: a value above u8::MAX wraps instead of failing
parse_u8_wraps(t) ==
    IF t = <<>> \/ (\E k \in 1..Len(t) : t[k] \notin DigitChars) THEN None
    ELSE Some(DecValue(t) % 256)

\* token.parse::<u8>(): Ok(n) as Some(n), Err as None.  An empty string, a
\* character that is no digit and a value above u8::MAX are errors; leading
\* zeros are accepted.  (A leading '+' is accepted by Rust and cannot occur:
\* the parameter characters of CSI_REGEX are digits and ';'.)
parse_u8(t) ==
    IF t = <<>> \/ (\E k \in 1..Len(t) : t[k] \notin DigitChars) THEN None
    ELSE IF DecValue(t) > 255 THEN None
    ELSE Some(DecValue(t))

\* sequence.split(';').collect(): one token more than there are ';', the empty
\* string gives one empty token
RECURSIVE split_from(_, _, _)
split_from(sequence, k, token) ==
    IF k > Len(sequence) THEN <<token>>
    ELSE IF sequence[k] = ";" THEN <<token>> \o split_from(sequence, k + 1, <<>>)
    ELSE split_from(sequence, k + 1, Append(token, sequence[k]))

\* a mutant of split: the tokens after the first ';' are dropped
split_first_only(sequence) == <<split_from(sequence, 1, <<>>)[1]>>

split(sequence) == split_from(sequence, 1, <<>>)

----------------------------------------------------------------------------
(* The SGR dispatcher.  The parser's two fields travel as the record       *)
(* self = [current_fg, current_bg]; one iteration of the while loop takes  *)
(* (codes, i, self) to [i, self].                                          *)

\* AnsiParser::new
NewParser == [current_fg |-> None, current_bg |-> None]

\* a mutant of reset_colors: the background is kept
reset_colors_keeps_bg(self) == [current_fg |-> None, current_bg |-> self.current_bg]

\* AnsiParser::reset_colors
reset_colors(self) == [current_fg |-> None, current_bg |-> None]

\* a mutant of swap: the foreground is lost
swap_moves_bg(self) == [current_fg |-> self.current_bg, current_bg |-> None]

\* a mutant of swap: the background is copied to the foreground
swap_copies(self) == [current_fg |-> self.current_bg, current_bg |-> self.current_bg]

\* std::mem::swap(&mut self.current_fg, &mut self.current_bg)
swap(self) == [current_fg |-> self.current_bg, current_bg |-> self.current_fg]

\* a mutant of skip_attribute: the index is left where it is
skip_attribute_stays(k, self) == [i |-> k, self |-> self]

\* a mutant of skip_attribute: the token after the attribute is taken too
skip_attribute_and_next(k, self) == [i |-> k + 2, self |-> self]

\* the arms "1", "4", "22", "24", "27": `i += 1` and nothing else
skip_attribute(k, self) == [i |-> k + 1, self |-> self]

\* a mutant of sgr_38: the channels that 38;2 lacks are taken as 0
sgr_38_pads(cs, k, self) ==
    LET channel(n) == IF k + n < Len(cs) THEN parse_u8(cs[k + n + 1]) ELSE Some(0)
    IN  IF k + 2 < Len(cs)
        THEN IF cs[k + 2] = <<"5">>
             THEN [i |-> k + 3,
                   self |-> IF parse_u8(cs[k + 3]) # None
                            THEN [self EXCEPT !.current_fg =
                                      Some(ansi_256_to_egui(parse_u8(cs[k + 3])[1]))]
                            ELSE self]
             ELSE IF cs[k + 2] = <<"2">>
             THEN [i |-> IF k + 5 < Len(cs) THEN k + 5 ELSE Len(cs),
                   self |-> IF channel(2) # None /\ channel(3) # None
                               /\ channel(4) # None
                            THEN [self EXCEPT !.current_fg =
                                      Some(from_rgb(channel(2)[1], channel(3)[1],
                                                    channel(4)[1]))]
                            ELSE self]
             ELSE [i |-> k + 1, self |-> self]
        ELSE [i |-> k + 1, self |-> self]

\* a mutant of sgr_38: a mode that is neither 5 nor 2 is passed over with the 38
sgr_38_skips_mode(cs, k, self) ==
    IF k + 2 < Len(cs)
    THEN IF cs[k + 2] = <<"5">>
         THEN LET color_code == parse_u8(cs[k + 3])
              IN  [i |-> k + 3,
                   self |-> IF color_code # None
                            THEN [self EXCEPT !.current_fg =
                                      Some(ansi_256_to_egui(color_code[1]))]
                            ELSE self]
         ELSE IF cs[k + 2] = <<"2">>
         THEN IF k + 4 < Len(cs)
              THEN LET r == parse_u8(cs[k + 3])
                       g == parse_u8(cs[k + 4])
                       b == parse_u8(cs[k + 5])
                   IN  [i |-> k + 5,
                        self |-> IF r # None /\ g # None /\ b # None
                                 THEN [self EXCEPT !.current_fg =
                                           Some(from_rgb(r[1], g[1], b[1]))]
                                 ELSE self]
              ELSE [i |-> k + 1, self |-> self]
         ELSE [i |-> k + 2, self |-> self]
    ELSE [i |-> k + 1, self |-> self]

\* the arm "38": codes[i] is "38"
sgr_38(cs, k, self) ==
    IF k + 2 < Len(cs)
    THEN IF cs[k + 2] = <<"5">>
         THEN LET color_code == parse_u8(cs[k + 3])
              IN  [i |-> k + 3,
                   self |-> IF color_code # None
                            THEN [self EXCEPT !.current_fg =
                                      Some(ansi_256_to_egui(color_code[1]))]
                            ELSE self]
         ELSE IF cs[k + 2] = <<"2">>
         THEN IF k + 4 < Len(cs)
              THEN LET r == parse_u8(cs[k + 3])
                       g == parse_u8(cs[k + 4])
                       b == parse_u8(cs[k + 5])
                   IN  [i |-> k + 5,
                        self |-> IF r # None /\ g # None /\ b # None
                                 THEN [self EXCEPT !.current_fg =
                                           Some(from_rgb(r[1], g[1], b[1]))]
                                 ELSE self]
              ELSE [i |-> k + 1, self |-> self]
         ELSE [i |-> k + 1, self |-> self]
    ELSE [i |-> k + 1, self |-> self]

\* a mutant of sgr_48: three tokens are passed without a look at the length
sgr_48_takes_three(cs, k, self) == [i |-> k + 3, self |-> self]

\* the arm "48": codes[i] is "48"
sgr_48(cs, k, self) ==
    IF k + 2 < Len(cs)
    THEN IF cs[k + 2] = <<"5">>
         THEN LET color_code == parse_u8(cs[k + 3])
              IN  [i |-> k + 3,
                   self |-> IF color_code # None
                            THEN [self EXCEPT !.current_bg =
                                      Some(ansi_256_to_egui(color_code[1]))]
                            ELSE self]
         ELSE IF cs[k + 2] = <<"2">>
         THEN IF k + 4 < Len(cs)
              THEN LET r == parse_u8(cs[k + 3])
                       g == parse_u8(cs[k + 4])
                       b == parse_u8(cs[k + 5])
                   IN  [i |-> k + 5,
                        self |-> IF r # None /\ g # None /\ b # None
                                 THEN [self EXCEPT !.current_bg =
                                           Some(from_rgb(r[1], g[1], b[1]))]
                                 ELSE self]
              ELSE [i |-> k + 1, self |-> self]
         ELSE [i |-> k + 1, self |-> self]
    ELSE [i |-> k + 1, self |-> self]

\* a mutant of sgr_4bit: 40..47 write the foreground
sgr_4bit_wrong_field(code, self) ==
    LET color_code == parse_u8(code)
    IN  IF color_code = None THEN self
        ELSE LET c == color_code[1]
             IN  IF c \in 30..37
                 THEN [self EXCEPT !.current_fg = Some(ansi_color_to_egui(U8(c - 30)))]
                 ELSE IF c \in 40..47
                 THEN [self EXCEPT !.current_fg = Some(ansi_color_to_egui(U8(c - 40)))]
                 ELSE self

\* a mutant of color_index: the bright colours are looked up after the table
color_index_past_table(color_code) ==
    IF color_code \in 30..37 THEN U8(color_code - 30)
    ELSE IF color_code \in 40..47 THEN U8(color_code - 40)
    ELSE IF color_code \in 90..97 THEN U8(U8(color_code - 90) + 16)
    ELSE U8(U8(color_code - 100) + 16)

\* `let color_index = ...` of the four ranges of the last arm: the index that
\* is passed to ansi_color_to_egui for a color_code in one of the ranges
color_index(color_code) ==
    IF color_code \in 30..37 THEN U8(color_code - 30)
    ELSE IF color_code \in 40..47 THEN U8(color_code - 40)
    ELSE IF color_code \in 90..97 THEN U8(U8(color_code - 90) + 8)
    ELSE U8(U8(color_code - 100) + 8)

\* the last arm, `code => ...`: the 4-bit colour codes
sgr_4bit(code, self) ==
    LET color_code == parse_u8(code)
    IN  IF color_code = None THEN self
        ELSE LET c == color_code[1]
             IN  IF c \in 30..37
                 THEN [self EXCEPT !.current_fg = Some(ansi_color_to_egui(color_index(c)))]
                 ELSE IF c \in 40..47
                 THEN [self EXCEPT !.current_bg = Some(ansi_color_to_egui(color_index(c)))]
                 ELSE IF c \in 90..97
                 THEN [self EXCEPT !.current_fg = Some(ansi_color_to_egui(color_index(c)))]
                 ELSE IF c \in 100..107
                 THEN [self EXCEPT !.current_bg = Some(ansi_color_to_egui(color_index(c)))]
                 ELSE self

\* one iteration of the while loop of process_sgr_sequence, at index k < len
sgr_iteration(cs, k, self) ==
    LET code == cs[k + 1]
    IN  IF code = <<>> THEN [i |-> k + 1, self |-> self]
        ELSE IF code = <<"0">> \/ code = <<>>
        THEN [i |-> k + 1, self |-> reset_colors(self)]
        ELSE IF code = <<"1">> THEN skip_attribute(k, self)
        ELSE IF code = <<"4">> THEN skip_attribute(k, self)
        ELSE IF code = <<"7">> THEN [i |-> k + 1, self |-> swap(self)]
        ELSE IF code = <<"2", "2">> THEN skip_attribute(k, self)
        ELSE IF code = <<"2", "4">> THEN skip_attribute(k, self)
        ELSE IF code = <<"2", "7">> THEN skip_attribute(k, self)
        ELSE IF code = <<"3", "8">> THEN sgr_38(cs, k, self)
        ELSE IF code = <<"4", "8">> THEN sgr_48(cs, k, self)
        ELSE IF code = <<"3", "9">>
        THEN [i |-> k + 1, self |-> [self EXCEPT !.current_fg = None]]
        ELSE IF code = <<"4", "9">>
        THEN [i |-> k + 1, self |-> [self EXCEPT !.current_bg = None]]
        ELSE [i |-> k + 1, self |-> sgr_4bit(code, self)]

\* the while loop of process_sgr_sequence from index k on: the fields it leaves
RECURSIVE sgr_loop(_, _, _)
sgr_loop(cs, k, self) ==
    IF k < Len(cs)
    THEN LET n == sgr_iteration(cs, k, self) IN sgr_loop(cs, n.i, n.self)
    ELSE self

\* AnsiParser::process_sgr_sequence
process_sgr_sequence(self, sequence) == sgr_loop(split(sequence), 0, self)

----------------------------------------------------------------------------
(* The segmenter, parse_sgr, as functions: what one pass of the for loop   *)
(* does, and the whole call.                                               *)

\* a ColoredText tagged with the parser's current colours
ColoredText(text, self) ==
    [text |-> text,
     foreground_color |-> self.current_fg,
     background_color |-> self.current_bg]

\* whether a capture is handed to process_sgr_sequence
enters_sgr(cap) == cap.final_byte = "m" /\ cap.params # <<>>

\* a mutant of csi_effect: an empty parameter list is dispatched like any other
csi_effect_dispatches_empty(cap, self) ==
    IF cap.final_byte = "m" THEN process_sgr_sequence(self, cap.params) ELSE self

\* "Only process SGR sequences (ending with 'm')": the fields after a capture
csi_effect(cap, self) ==
    IF cap.final_byte = "m"
    THEN IF cap.params = <<>> THEN reset_colors(self)
         ELSE process_sgr_sequence(self, cap.params)
    ELSE self

\* a mutant of text_before: the run is pushed after the capture is applied
text_before_late(res, s, le, start, self) ==
    LET after == csi_effect(CsiCapture(s, start), self)
    IN  IF start > le
        THEN Append(res, ColoredText(SubSeq(s, le + 1, start), after))
        ELSE res

\* "Add the text before the escape sequence (if any)": res after the push
text_before(res, s, le, start, self) ==
    IF start > le
    THEN LET plain_text == SubSeq(s, le + 1, start)
         IN  IF plain_text # <<>> THEN Append(res, ColoredText(plain_text, self))
             ELSE res
    ELSE res

\* a mutant of text_after: the remaining text is taken one character late
text_after_skips(res, s, le, self) ==
    IF le < Len(s)
    THEN LET plain_text == SubSeq(s, le + 2, Len(s))
         IN  IF plain_text # <<>> THEN Append(res, ColoredText(plain_text, self))
             ELSE res
    ELSE res

\* "Add the remaining text (if any)": res after the push
text_after(res, s, le, self) ==
    IF le < Len(s)
    THEN LET plain_text == SubSeq(s, le + 1, Len(s))
         IN  IF plain_text # <<>> THEN Append(res, ColoredText(plain_text, self))
             ELSE res
    ELSE res

\* a mutant of returned: the vector is returned as the loop left it
returned_as_pushed(res, s) == res

\* "If no escape sequences were found, return the entire text": the value
\* parse_sgr returns
returned(res, s) ==
    IF res = <<>>
    THEN << [text |-> s, foreground_color |-> None, background_color |-> None] >>
    ELSE res

\* a mutant of parse_sgr_entry: the colours of the last call are kept
parse_sgr_entry_keeps(self) == self

\* "Reset current colors at start of new input": the fields the loop starts with
parse_sgr_entry(self) == reset_colors(self)

\* the for loop of parse_sgr from last_end = le on, and the return
RECURSIVE parse_sgr_from(_, _, _, _)
parse_sgr_from(res, s, le, self) ==
    LET p == CsiStart(s, le)
    IN  IF p # NoMatch
        THEN LET cap == CsiCapture(s, p)
             IN  parse_sgr_from(text_before(res, s, le, cap.start, self), s,
                                cap.end, csi_effect(cap, self))
        ELSE [result |-> returned(text_after(res, s, le, self), s),
              self |-> self]

\* AnsiParser::parse_sgr: [result, self]
parse_sgr(self, s) == parse_sgr_from(<<>>, s, 0, parse_sgr_entry(self))

\* AnsiParser::parse: [result, self]
parse(self, inp) == parse_sgr(self, strip_non_sgr_sequences(inp))

----------------------------------------------------------------------------
(* The free functions.  A RichText is its text with the colour and the     *)
(* background colour set on it, None for one that was never set.           *)

\* RichText::new
RichText_new(text) == [text |-> text, color |-> None, background_color |-> None]

\* RichText::color
RichText_color(rich_text, c) == [rich_text EXCEPT !.color = Some(c)]

\* RichText::background_color
RichText_background_color(rich_text, c) ==
    [rich_text EXCEPT !.background_color = Some(c)]

\* a mutant of rich_text_of: only one of the two colours is applied
rich_text_of_first_color_only(colored_text) ==
    IF colored_text.foreground_color # None
    THEN RichText_color(RichText_new(colored_text.text),
                        colored_text.foreground_color[1])
    ELSE IF colored_text.background_color # None
    THEN RichText_background_color(RichText_new(colored_text.text),
                                   colored_text.background_color[1])
    ELSE RichText_new(colored_text.text)

\* the closure mapped by convert_to_rich_text
rich_text_of(colored_text) ==
    LET new == RichText_new(colored_text.text)
        with_fg == IF colored_text.foreground_color # None
                   THEN RichText_color(new, colored_text.foreground_color[1])
                   ELSE new
    IN  IF colored_text.background_color # None
        THEN RichText_background_color(with_fg, colored_text.background_color[1])
        ELSE with_fg

\* convert_to_rich_text
convert_to_rich_text(colored_texts) ==
    [k \in 1..Len(colored_texts) |-> rich_text_of(colored_texts[k])]

\* ansi_to_rich_text
ansi_to_rich_text(inp) == convert_to_rich_text(parse(NewParser, inp).result)

\* eight_bit::apply_foreground_color
eight_bit_apply_foreground_color(text, color_code) ==
    RichText_color(RichText_new(text), ansi_256_to_egui(color_code))

\* eight_bit::apply_background_color
eight_bit_apply_background_color(text, color_code) ==
    RichText_background_color(RichText_new(text), ansi_256_to_egui(color_code))

\* text is one or more digits: \d+
IsDigits(text) == text # <<>> /\ \A k \in 1..Len(text) : text[k] \in DigitChars

\* a mutant of parse_8bit_color: the mode before the ';' is not looked at
parse_8bit_color_any_mode(text, sequence, is_background) ==
    LET color_str == SubSeq(sequence, 3, Len(sequence))
    IN  IF Len(sequence) >= 3 /\ sequence[2] = ";" /\ IsDigits(color_str)
           /\ parse_u8(color_str) # None
        THEN Some(IF is_background
                  THEN eight_bit_apply_background_color(text, parse_u8(color_str)[1])
                  ELSE eight_bit_apply_foreground_color(text, parse_u8(color_str)[1]))
        ELSE None

\* eight_bit::parse_8bit_color, the pattern ^5;(\d+)$
parse_8bit_color(text, sequence, is_background) ==
    LET color_str == SubSeq(sequence, 3, Len(sequence))
    IN  IF Len(sequence) >= 3 /\ sequence[1] = "5" /\ sequence[2] = ";"
           /\ IsDigits(color_str)
        THEN IF parse_u8(color_str) # None
             THEN Some(IF is_background
                       THEN eight_bit_apply_background_color(text, parse_u8(color_str)[1])
                       ELSE eight_bit_apply_foreground_color(text, parse_u8(color_str)[1]))
             ELSE None
        ELSE None

\* twenty_four_bit::rgb_to_egui
rgb_to_egui(r, g, b) == from_rgb(r, g, b)

\* twenty_four_bit::apply_foreground_color
twenty_four_bit_apply_foreground_color(text, r, g, b) ==
    RichText_color(RichText_new(text), rgb_to_egui(r, g, b))

\* twenty_four_bit::apply_background_color
twenty_four_bit_apply_background_color(text, r, g, b) ==
    RichText_background_color(RichText_new(text), rgb_to_egui(r, g, b))

\* the captures of ^2;(\d+);(\d+);(\d+)$: <<r_str, g_str, b_str>>, or None
twenty_four_bit_captures(sequence) ==
    LET parts == split(sequence)
    IN  IF Len(parts) = 4 /\ parts[1] = <<"2">> /\ IsDigits(parts[2])
           /\ IsDigits(parts[3]) /\ IsDigits(parts[4])
        THEN Some(<<parts[2], parts[3], parts[4]>>)
        ELSE None

\* a mutant of parse_24bit_color: a channel above 255 wraps
parse_24bit_color_wraps(text, sequence, is_background) ==
    LET caps == twenty_four_bit_captures(sequence)
    IN  IF caps = None THEN None
        ELSE LET r == parse_u8_wraps(caps[1][1])
                 g == parse_u8_wraps(caps[1][2])
                 b == parse_u8_wraps(caps[1][3])
             IN  Some(IF is_background
                      THEN twenty_four_bit_apply_background_color(text, r[1], g[1], b[1])
                      ELSE twenty_four_bit_apply_foreground_color(text, r[1], g[1], b[1]))

\* twenty_four_bit::parse_24bit_color
parse_24bit_color(text, sequence, is_background) ==
    LET caps == twenty_four_bit_captures(sequence)
    IN  IF caps = None THEN None
        ELSE LET r == parse_u8(caps[1][1])
                 g == parse_u8(caps[1][2])
                 b == parse_u8(caps[1][3])
             IN  IF r # None /\ g # None /\ b # None
                 THEN Some(IF is_background
                           THEN twenty_four_bit_apply_background_color(text, r[1], g[1], b[1])
                           ELSE twenty_four_bit_apply_foreground_color(text, r[1], g[1], b[1]))
                 ELSE None

----------------------------------------------------------------------------
(* Inputs.                                                                 *)

\* the input of test_plain_text_no_escape
In_plain_text ==
    <<"H", "e", "l", "l", "o", ",", " ", "W", "o", "r", "l", "d", "!">>

\* the input of test_4bit_color_parsing
In_4bit ==
    <<ESC, "[", "3", "1", "m", "R", "e", "d", " ", "T", "e", "x", "t", ESC,
      "[", "0", "m">>

\* the input of test_sequential_color_changes
In_sequential ==
    <<"D", "e", "f", "a", "u", "l", "t", ESC, "[", "3", "1", "m", "R", "e",
      "d", ESC, "[", "4", "3", "m", "R", "e", "d", " ", "o", "n", " ", "y",
      "e", "l", "l", "o", "w", ESC, "[", "3", "2", "m", "G", "r", "e", "e",
      "n", " ", "o", "n", " ", "y", "e", "l", "l", "o", "w", ESC, "[", "0",
      "m", "D", "e", "f", "a", "u", "l", "t">>

\* the input of test_escape_sequence_variations
In_escaped_x1b ==
    <<"\\", "x", "1", "b", "[", "3", "1", "m", "R", "e", "d", "\\", "x", "1",
      "b", "[", "0", "m">>

\* the input of test_escape_sequence_variations
In_escaped_033 ==
    <<"\\", "0", "3", "3", "[", "3", "1", "m", "R", "e", "d", "\\", "0", "3",
      "3", "[", "0", "m">>

\* the input of test_consecutive_resets
In_consecutive_resets ==
    <<ESC, "[", "0", "m", ESC, "[", "0", "m", ESC, "[", "0", "m", "T", "e",
      "x", "t", ESC, "[", "0", "m">>

\* the input of test_empty_reset_sequence
In_empty_reset ==
    <<ESC, "[", "3", "1", "m", "R", "e", "d", ESC, "[", "m", "D", "e", "f",
      "a", "u", "l", "t">>

\* the input of test_linux_prompt_format
In_linux_prompt ==
    <<ESC, "[", "1", ";", "3", "1", "m", "r", "o", "o", "t", ESC, "[", "m",
      "@", ESC, "[", "1", ";", "3", "4", "m", "h", "o", "s", "t", ESC, "[",
      "m", ":", "#">>

\* the input of test_osc_sequence_stripped
In_osc ==
    <<"B", "e", "f", "o", "r", "e", ESC, "]", "0", ";", "W", "i", "n", "d",
      "o", "w", " ", "T", "i", "t", "l", "e", BEL, "A", "f", "t", "e", "r">>

\* the input of test_osc_with_bel_terminator
In_osc_bel ==
    <<ESC, "]", "2", ";", "T", "i", "t", "l", "e", BEL, "T", "e", "x", "t">>

\* the input of test_csi_cursor_movement_ignored
In_cursor ==
    <<ESC, "[", "2", "J", ESC, "[", "H", ESC, "[", "3", "1", "m", "R", "e",
      "d", ESC, "[", "0", "m">>

\* the input of test_osc_without_terminator
In_osc_unterminated ==
    <<"S", "t", "a", "r", "t", ESC, "]", "0", ";", "N", "o", " ", "t", "e",
      "r", "m", "i", "n", "a", "t", "o", "r", "T", "e", "x", "t">>

\* the input of test_reverse_video
In_reverse ==
    <<ESC, "[", "3", "1", ";", "4", "2", "m", "R", "e", "d", " ", "o", "n",
      " ", "G", "r", "e", "e", "n", ESC, "[", "7", "m", "S", "w", "a", "p",
      "p", "e", "d", ESC, "[", "0", "m">>

\* the input of test_text_attributes
In_attributes ==
    <<ESC, "[", "1", "m", "B", "o", "l", "d", ESC, "[", "2", "2", "m", ESC,
      "[", "4", "m", "U", "n", "d", "e", "r", "l", "i", "n", "e", ESC, "[",
      "2", "4", "m", "N", "o", "r", "m", "a", "l">>

\* the input of test_24bit_color_parsing
In_24bit ==
    <<ESC, "[", "3", "8", ";", "2", ";", "2", "5", "5", ";", "1", "0", "5",
      ";", "1", "8", "0", "m", "H", "o", "t", " ", "P", "i", "n", "k", " ",
      "T", "e", "x", "t", ESC, "[", "0", "m">>

\* the input of test_8bit_color_parsing
In_8bit ==
    <<ESC, "[", "3", "8", ";", "5", ";", "2", "0", "8", "m", "O", "r", "a",
      "n", "g", "e", " ", "T", "e", "x", "t", ESC, "[", "0", "m">>

\* the input of test_foreground_and_background_color
In_fg_bg ==
    <<ESC, "[", "3", "1", ";", "4", "3", "m", "Y", "e", "l", "l", "o", "w",
      " ", "o", "n", " ", "r", "e", "d", ESC, "[", "0", "m">>

\* inputs of the crate's own tests
TestInputs ==
    {In_plain_text,
     In_4bit,
     In_sequential,
     In_escaped_x1b,
     In_escaped_033,
     In_consecutive_resets,
     In_empty_reset,
     In_linux_prompt,
     In_osc,
     In_osc_bel,
     In_cursor,
     In_osc_unterminated,
     In_reverse,
     In_attributes,
     In_24bit,
     In_8bit,
     In_fg_bg}

\* the number of pieces an enumerated input is made of
MaxPieces == 3

\* what the enumerated inputs are made of: the characters the three patterns
\* tell apart, and three whole SGR sequences (red, on green, reset)
SgrRed == <<ESC, "[", "3", "1", "m">>
SgrOnGreen == <<ESC, "[", "4", "2", "m">>
SgrEmpty == <<ESC, "[", "m">>

Pieces ==
    { <<ESC>>, <<"[">>, <<"]">>, <<BEL>>, <<"\\">>, <<"m">>, <<"A">>, <<".">>,
      <<"7">>, SgrRed, SgrOnGreen, SgrEmpty }

\* every concatenation of at most n pieces
RECURSIVE Concats(_)
Concats(n) ==
    IF n = 0 THEN {<<>>}
    ELSE LET shorter == Concats(n - 1)
         IN  shorter \cup {s \o q : s \in shorter, q \in Pieces}

\* an OSC sequence with each terminator, ESC \ and BEL
OscSt == <<ESC, "]", "0", ";", "T", ESC, "\\">>
OscBel == <<ESC, "]", "0", ";", "T", BEL>>

\* what stands before it: nothing, text, ESC, an SGR sequence, an OSC sequence
\* without terminator
OscBefore == { <<>>, <<"B">>, <<ESC>>, SgrRed, <<ESC, "]", "x">> }

\* what stands after it: nothing, text, the tail of a CSI sequence
OscAfter == { <<>>, <<"A">>, <<"[", "m", ".">> }

OscInputs ==
    {pre \o osc \o post : pre \in OscBefore, osc \in {OscSt, OscBel}, post \in OscAfter}

\* a CSI sequence, SGR or not, with an OSC sequence (without terminator, with
\* one), an other-escape sequence or ESC before it, and with nothing, an OSC
\* sequence, an other-escape sequence or text after it
CsiBefore == { <<ESC, "]", "x">>, OscBel, <<ESC, "A">>, <<ESC>> }
CsiAfter == { <<>>, <<ESC, "]", "y">>, <<ESC, "A">>, <<".">> }

SurroundedCsiInputs ==
    {pre \o csi \o post :
        pre \in CsiBefore, csi \in {SgrRed, <<ESC, "[", "2", "J">>}, post \in CsiAfter}

\* inputs where a removal brings the two halves of a sequence together: of an
\* OSC sequence after the other-escape removal, of an other-escape sequence
\* after either removal, of an OSC sequence after the OSC removal
OrderInputs ==
    { <<ESC, ESC, "A", "]", ".">>,
      <<ESC, ESC, "A", "A">>,
      <<ESC, ESC, "]", BEL, "A">>,
      <<ESC, ESC, "]", BEL, "]", ".">> }

\* codes written with a leading zero, each after a sequence that sets both
\* colours and the text "a", and before the text "b"
LeadingZeroTokens ==
    { <<"0", "0">>, <<"0", "7">>, <<"0", "3", "9">>, <<"0", "4", "9">>,
      <<"0", "3", "1">>, <<"0", "0", "4", "2">> }

LeadingZeroInputs ==
    {<<ESC, "[">> \o prior \o <<"m", "a", ESC, "[">> \o t \o <<"m", "b">> :
        prior \in { <<"3", "1", ";", "4", "2">>, <<"0">> },
        t \in LeadingZeroTokens}

Inputs ==
    Concats(MaxPieces) \cup TestInputs \cup OscInputs \cup SurroundedCsiInputs
        \cup OrderInputs \cup LeadingZeroInputs

----------------------------------------------------------------------------
(* The parser as a state machine: a parse call runs from "idle" through    *)
(* the for loop of parse_sgr ("scan") and, inside it, the while loop of    *)
(* process_sgr_sequence ("sgr"), to "done", where result is the returned   *)
(* vector.                                                                 *)

Self == [current_fg |-> current_fg, current_bg |-> current_bg]

SetSelf(self) ==
    /\ current_fg' = self.current_fg
    /\ current_bg' = self.current_bg

Init ==
    /\ pc = "idle"
    /\ input = <<>>
    /\ cleaned = <<>>
    /\ last_end = 0
    /\ result = <<>>
    /\ current_fg = NewParser.current_fg
    /\ current_bg = NewParser.current_bg
    /\ codes = <<>>
    /\ i = 0
    /\ entry_self = NewParser
    /\ call = <<>>
    /\ ret = <<>>

\* parse(inp) is called: the text is stripped and parse_sgr begins (an empty
\* result, the colours reset, last_end = 0)
Parse(inp) ==
    /\ pc = "idle"
    /\ input' = inp
    /\ entry_self' = Self
    /\ cleaned' = strip_non_sgr_sequences(inp)
    /\ result' = <<>>
    /\ SetSelf(parse_sgr_entry(Self))
    /\ last_end' = 0
    /\ pc' = "scan"
    /\ UNCHANGED <<codes, i, call, ret>>

\* one pass of the for loop, up to the call of process_sgr_sequence if the
\* capture is handed to it, and to the end of the pass otherwise
ScanMatch ==
    /\ pc = "scan"
    /\ CsiStart(cleaned, last_end) # NoMatch
    /\ LET cap == CsiCapture(cleaned, CsiStart(cleaned, last_end))
       IN  /\ result' = text_before(result, cleaned, last_end, cap.start, Self)
           /\ IF enters_sgr(cap)
              THEN /\ pc' = "sgr"
                   /\ codes' = split(cap.params)
                   /\ i' = 0
                   /\ UNCHANGED <<last_end, current_fg, current_bg>>
              ELSE /\ pc' = "scan"
                   /\ SetSelf(csi_effect(cap, Self))
                   /\ last_end' = cap.end
                   /\ UNCHANGED <<codes, i>>
    /\ UNCHANGED <<input, cleaned, entry_self, call, ret>>

\* one iteration of the while loop of process_sgr_sequence
SgrStep ==
    /\ pc = "sgr"
    /\ i < Len(codes)
    /\ LET n == sgr_iteration(codes, i, Self)
       IN  /\ i' = n.i
           /\ SetSelf(n.self)
    /\ UNCHANGED <<pc, input, cleaned, last_end, result, codes, entry_self, call,
                   ret>>

\* process_sgr_sequence returns: the pass of the for loop ends (last_end = end)
SgrReturn ==
    /\ pc = "sgr"
    /\ i >= Len(codes)
    /\ pc' = "scan"
    /\ last_end' = CsiCapture(cleaned, CsiStart(cleaned, last_end)).end
    /\ codes' = <<>>
    /\ i' = 0
    /\ UNCHANGED <<input, cleaned, result, current_fg, current_bg, entry_self,
                   call, ret>>

\* no capture is left: the remaining text is pushed and parse_sgr returns
Finish ==
    /\ pc = "scan"
    /\ CsiStart(cleaned, last_end) = NoMatch
    /\ result' = returned(text_after(result, cleaned, last_end, Self), cleaned)
    /\ pc' = "done"
    /\ UNCHANGED <<input, cleaned, last_end, current_fg, current_bg, codes, i,
                   entry_self, call, ret>>

\* the caller takes the vector; the parser, with the colours the call left,
\* is ready for the next call
Return ==
    /\ pc = "done"
    /\ pc' = "idle"
    /\ input' = <<>>
    /\ cleaned' = <<>>
    /\ result' = <<>>
    /\ last_end' = 0
    /\ entry_self' = Self
    /\ UNCHANGED <<current_fg, current_bg, codes, i, call, ret>>

\* a caller calls parse on one of the inputs
Call(inputs) ==
    /\ pc = "idle"
    /\ \E inp \in inputs : Parse(inp)

Next ==
    \/ Call(Inputs)
    \/ ScanMatch
    \/ SgrStep
    \/ SgrReturn
    \/ Finish
    \/ Return

\* one parser, used for call after call
Spec == Init /\ [][Next]_vars

----------------------------------------------------------------------------
(* Inputs that put one SGR parameter list under test: a first sequence     *)
(* sets the colours, the text "a" shows them, the sequence under test      *)
(* follows, and the text "b" shows what it left.                           *)

\* the parameter tokens the lists are made of
SgrTokens ==
    { <<>>, <<"0">>, <<"1">>, <<"7">>, <<"3", "1">>, <<"4", "2">>,
      <<"3", "8">>, <<"4", "8">>, <<"5">>, <<"2">>, <<"2", "5", "6">> }

\* the tokens tried as the index of 38;5;n and as the channels of 38;2;r;g;b
ValueTokens == { <<>>, <<"1">>, <<"2", "5", "5">>, <<"2", "5", "6">> }

\* the longest list of SgrTokens, and the longest such list after an extended
\* colour code
MaxTokens == 3
MaxTail == 1

\* every list of at most n tokens
RECURSIVE TokenLists(_)
TokenLists(n) ==
    IF n = 0 THEN {<<>>}
    ELSE LET shorter == TokenLists(n - 1)
         IN  shorter \cup {Append(l, t) : l \in shorter, t \in SgrTokens}

\* 38;5;n, 48;5;n, 38;2;r;g;b and 48;2;r;g;b
ExtendedCodes ==
    {<<c, <<"5">>, n>> : c \in {<<"3", "8">>, <<"4", "8">>}, n \in ValueTokens}
    \cup
    {<<c, <<"2">>, r, g, b>> :
        c \in {<<"3", "8">>, <<"4", "8">>},
        r \in ValueTokens, g \in ValueTokens, b \in ValueTokens}

\* the lists of tokens put under test; a list of no token stands for the
\* wholly empty parameter list, as does the list of one empty token
TokenListsUnderTest ==
    TokenLists(MaxTokens)
    \cup {x \o l : x \in ExtendedCodes, l \in TokenLists(MaxTail)}

\* the tokens joined by ';'
RECURSIVE join(_)
join(l) ==
    IF l = <<>> THEN <<>>
    ELSE IF Len(l) = 1 THEN l[1]
    ELSE l[1] \o <<";">> \o join(Tail(l))

\* ESC [ params m
Sgr(params) == <<ESC, "[">> \o params \o <<"m">>

\* the parameter lists that set the colours before the list under test:
\* 0 (neither set) and 31;42 (red on green)
PriorParams == { <<"0">>, <<"3", "1", ";", "4", "2">> }

\* Red, Red on yellow, Plain: three runs, each after one SGR sequence
In_persistence ==
    SgrRed \o <<"R", "e", "d">> \o Sgr(<<"4", "3">>)
           \o <<"R", "e", "d", "-", "o", "n", "-", "y", "e", "l", "l", "o", "w">>
           \o Sgr(<<"0">>) \o <<"P", "l", "a", "i", "n">>

SgrInputs ==
    {Sgr(prior) \o <<"a">> \o Sgr(join(l)) \o <<"b">> :
        prior \in PriorParams, l \in TokenListsUnderTest}
    \cup {In_persistence, In_sequential}

NextSgr ==
    \/ Call(SgrInputs)
    \/ ScanMatch
    \/ SgrStep
    \/ SgrReturn
    \/ Finish

\* one call of parse on a new parser, on an input that puts one SGR parameter
\* list under test
SpecSgr == Init /\ [][NextSgr]_vars

----------------------------------------------------------------------------
(* The colour codes: one call of parse on Sgr(prior) "a" Sgr(list) "b",    *)
(* the list one colour code: an 8-bit index, a 24-bit triple, a single     *)
(* code 0..107, or an attribute followed by a colour.                      *)

DecDigits == <<"0", "1", "2", "3", "4", "5", "6", "7", "8", "9">>

\* the decimal token of n
RECURSIVE Dec(_)
Dec(n) ==
    IF n < 10 THEN <<DecDigits[n + 1]>>
    ELSE Append(Dec(n \div 10), DecDigits[(n % 10) + 1])

\* the fields before the code: none, foreground only, background only, both
ColorPriors ==
    { <<"0">>, <<"3", "1">>, <<"4", "2">>, <<"3", "1", ";", "4", "2">> }

\* the channel values of the 24-bit codes under test
ChannelValues == {0, 1, 105, 180, 255}

EightBitLists ==
    {<<m, <<"5">>, Dec(n)>> : m \in {<<"3", "8">>, <<"4", "8">>}, n \in 0..255}

TrueColorLists ==
    UNION {{<<m, <<"2">>, Dec(t[1]), Dec(t[2]), Dec(t[3])>> :
                m \in {<<"3", "8">>, <<"4", "8">>}} :
           t \in ChannelValues \X ChannelValues \X ChannelValues}

SingleCodeLists == {<<Dec(c)>> : c \in 0..107}

AttributeLists ==
    {<<Dec(a), c>> : a \in {1, 4, 22, 24, 27}, c \in {<<"3", "1">>, <<"4", "2">>}}

\* the codes above the last colour code, two of them above u8::MAX
HighCodeLists == {<<Dec(c)>> : c \in (108..255) \cup {256, 300}}

\* 7 followed by 7, by 27, by a colour code, and 7;27;7
ReverseLists ==
    {<<Dec(7), Dec(c)>> : c \in {7, 27, 31, 42}} \cup { <<Dec(7), Dec(27), Dec(7)>> }

ColorLists ==
    EightBitLists \cup TrueColorLists \cup SingleCodeLists \cup AttributeLists
        \cup HighCodeLists \cup ReverseLists

ColorInputs ==
    {Sgr(prior) \o <<"a">> \o Sgr(join(l)) \o <<"b">> :
        prior \in ColorPriors, l \in ColorLists}

NextColor ==
    \/ Call(ColorInputs)
    \/ ScanMatch
    \/ SgrStep
    \/ SgrReturn
    \/ Finish

SpecColor == Init /\ [][NextColor]_vars

----------------------------------------------------------------------------
(* The free functions, each called once: ansi_to_rich_text, which makes a  *)
(* parser of its own, runs parse on it and converts the runs, and the two  *)
(* sequence parsers of the colour modules.                                 *)

\* ansi_to_rich_text(inp) is called: a new parser, and parse(inp) begins on it
AnsiToRichText ==
    /\ pc = "idle"
    /\ call = <<>>
    /\ \E inp \in TestInputs \cup OscInputs :
          /\ call' = [function |-> "ansi_to_rich_text", input |-> inp]
          /\ input' = inp
          /\ cleaned' = strip_non_sgr_sequences(inp)
    /\ entry_self' = NewParser
    /\ result' = <<>>
    /\ SetSelf(parse_sgr_entry(NewParser))
    /\ last_end' = 0
    /\ pc' = "scan"
    /\ UNCHANGED <<codes, i, ret>>

\* parse has returned to ansi_to_rich_text, which converts the runs and returns
Convert ==
    /\ pc = "done"
    /\ call # <<>>
    /\ ret' = convert_to_rich_text(result)
    /\ pc' = "returned"
    /\ UNCHANGED <<input, cleaned, last_end, result, current_fg, current_bg, codes,
                   i, entry_self, call>>

\* the texts and the sequences the two sequence parsers are called with
HelperTexts == { <<>>, <<"t">> }

HelperValues ==
    {Dec(n) : n \in {0, 1, 7, 105, 208, 255, 256, 300}}
        \cup { <<>>, <<"0", "0", "7">>, <<"1", "a">>, <<"-", "1">> }

EightBitSequences ==
    {join(<<m, v>>) : m \in { <<"5">>, <<"2">>, <<"4">>, <<>> }, v \in HelperValues}
        \cup { <<"5">>, <<"5", ";", "1", ";", "2">>, <<" ", "5", ";", "1">>,
               <<"5", ";", "1", " ">>, <<"5", "1">> }

HelperChannels == { <<"0">>, <<"1", "0", "5">>, <<"2", "5", "5">>, <<"2", "5", "6">>, <<>> }

TwentyFourBitSequences ==
    {join(<<m, r, g, b>>) : m \in { <<"2">>, <<"5">> }, r \in HelperChannels,
                            g \in HelperChannels, b \in HelperChannels}
        \cup { <<"2">>, <<"2", ";", "1", ";", "2">>,
               <<"2", ";", "1", ";", "2", ";", "3", ";", "4">>,
               <<"2", ";", "1", ";", "2", ";", "x">> }

\* parse_8bit_color is called and returns
Parse8bitColor ==
    /\ pc = "idle"
    /\ call = <<>>
    /\ \E text \in HelperTexts, sequence \in EightBitSequences,
          is_background \in BOOLEAN :
          /\ call' = [function |-> "parse_8bit_color", text |-> text,
                      sequence |-> sequence, is_background |-> is_background]
          /\ ret' = parse_8bit_color(text, sequence, is_background)
    /\ pc' = "returned"
    /\ UNCHANGED <<input, cleaned, last_end, result, current_fg, current_bg, codes,
                   i, entry_self>>

\* parse_24bit_color is called and returns
Parse24bitColor ==
    /\ pc = "idle"
    /\ call = <<>>
    /\ \E text \in HelperTexts, sequence \in TwentyFourBitSequences,
          is_background \in BOOLEAN :
          /\ call' = [function |-> "parse_24bit_color", text |-> text,
                      sequence |-> sequence, is_background |-> is_background]
          /\ ret' = parse_24bit_color(text, sequence, is_background)
    /\ pc' = "returned"
    /\ UNCHANGED <<input, cleaned, last_end, result, current_fg, current_bg, codes,
                   i, entry_self>>

NextFunctions ==
    \/ AnsiToRichText
    \/ ScanMatch
    \/ SgrStep
    \/ SgrReturn
    \/ Finish
    \/ Convert
    \/ Parse8bitColor
    \/ Parse24bitColor

SpecFunctions == Init /\ [][NextFunctions]_vars

----------------------------------------------------------------------------
(* Properties.                                                             *)

\* the texts of the runs, concatenated in list order
RECURSIVE RunsText(_)
RunsText(res) ==
    IF res = <<>> THEN <<>> ELSE res[1].text \o RunsText(Tail(res))

\* s from offset p on, with every match of the CSI pattern removed
RECURSIVE RemoveCsiFrom(_, _)
RemoveCsiFrom(s, p) ==
    IF p >= Len(s) THEN <<>>
    ELSE IF CsiEndAt(s, p) # NoMatch THEN RemoveCsiFrom(s, CsiEndAt(s, p))
    ELSE <<s[p + 1]>> \o RemoveCsiFrom(s, p + 1)

\* the input with every recognized escape sequence removed
VisibleText(inp) == RemoveCsiFrom(strip_non_sgr_sequences(inp), 0)

\* the colours a run is tagged with
Tags(run) ==
    [current_fg |-> run.foreground_color, current_bg |-> run.background_color]

\* C1: the texts of the returned runs, concatenated in order, are the input
\* with every recognized escape sequence (OSC, other escape, CSI) removed.
C1_RunsAreVisibleText ==
    pc = "done" => RunsText(result) = VisibleText(input)

\* C2: no returned run has empty text, unless the input is the empty string.
C2_NoEmptyRun ==
    pc = "done" /\ input # <<>> => \A k \in 1..Len(result) : result[k].text # <<>>

\* C3: whatever colours the call before left on the parser, a call returns the
\* runs that a new parser returns for the same input.
C3_ResetPerCall ==
    pc = "done" => result = parse(NewParser, input).result

\* C3's case: the call before left a foreground and a background, and this
\* call returned an uncoloured run for its text
C3_Witness ==
    /\ pc = "done"
    /\ entry_self.current_fg # None
    /\ entry_self.current_bg # None
    /\ input = <<".">>
    /\ result = << [text |-> <<".">>, foreground_color |-> None,
                    background_color |-> None] >>


\* the capture the for loop is at (its next match from last_end on)
HasCapture == CsiStart(cleaned, last_end) # NoMatch
Capture == CsiCapture(cleaned, CsiStart(cleaned, last_end))

\* the decimal value of a token, or NoMatch for a token that is no number
TokenValue(t) ==
    IF t # <<>> /\ (\A k \in 1..Len(t) : t[k] \in DigitChars) THEN DecValue(t)
    ELSE NoMatch

\* the codes that reset, swap or set the foreground, and the background
FgCodes == {0, 7, 38, 39} \cup (30..37) \cup (90..97)
BgCodes == {0, 7, 48, 49} \cup (40..47) \cup (100..107)

\* this step dispatches one token of an SGR sequence whose code is in the set
TokenStep(changers) ==
    /\ pc = "sgr"
    /\ i < Len(codes)
    /\ Capture.final_byte = "m"
    /\ TokenValue(codes[i + 1]) \in changers

\* this step applies an SGR sequence with a wholly empty parameter list
EmptySgrStep ==
    /\ pc = "scan"
    /\ HasCapture
    /\ Capture.final_byte = "m"
    /\ Capture.params = <<>>

\* this step pushes a run for text of the cleaned input (the run parse_sgr
\* makes up when it has pushed none is not one)
PushesText ==
    /\ pc = "scan"
    /\ Len(result') = Len(result) + 1
    /\ ~(pc' = "done" /\ result = <<>> /\ last_end >= Len(cleaned))

\* C4 in one step of a call: a field changes only by a token that sets, swaps
\* or resets it (or by ESC[m), and a run pushed carries the fields as they are
C4_Step ==
    pc \in {"scan", "sgr"} =>
        /\ current_fg' # current_fg => TokenStep(FgCodes) \/ EmptySgrStep
        /\ current_bg' # current_bg => TokenStep(BgCodes) \/ EmptySgrStep
        /\ PushesText => Tags(result'[Len(result')]) = Self

\* C4's example: Red, Red-on-yellow, Plain
C4_Example ==
    pc = "done" /\ input = In_persistence =>
        /\ Len(result) = 3
        /\ Tags(result[1]) = [current_fg |-> Some(Color32_RED), current_bg |-> None]
        /\ Tags(result[2]) = [current_fg |-> Some(Color32_RED),
                              current_bg |-> Some(Color32_YELLOW)]
        /\ Tags(result[3]) = [current_fg |-> None, current_bg |-> None]

\* C4: within one call a foreground or background that an SGR sequence set
\* stays on every later run until a later SGR token sets, swaps or resets that
\* field; Red, Red-on-yellow, Plain gives (red, none), (red, yellow), (none, none).
C4_Persistence == [][C4_Step /\ C4_Example']_vars

\* C4's case: the second run of the example still has the red of the first
C4_Witness ==
    /\ pc = "done"
    /\ input = In_persistence
    /\ Len(result) = 3
    /\ result[1].foreground_color = Some(Color32_RED)
    /\ result[2].foreground_color = Some(Color32_RED)
    /\ result[2].background_color = Some(Color32_YELLOW)
    /\ result[3].foreground_color = None

\* C5 in one pass of the for loop: the fields are those that exactly the
\* sequences before last_end produce, and the text pushed (up to the next
\* capture, or to the end) is tagged with them, before the capture is applied
C5_Step ==
    pc = "scan" =>
        /\ Self = parse_sgr(NewParser, SubSeq(cleaned, 1, last_end)).self
        /\ PushesText =>
              /\ Tags(result'[Len(result')]) = Self
              /\ result'[Len(result')].text =
                    SubSeq(cleaned, last_end + 1,
                           IF HasCapture THEN Capture.start ELSE Len(cleaned))

\* C5: every run carries the colours produced by exactly the SGR sequences
\* before it in the cleaned text: the text between two captures is pushed with
\* the fields as they are before the later capture is applied, the text after
\* the last capture with the final fields.
C5_RunsCarryPrecedingState == [][C5_Step]_vars

\* C5's case: the five runs of test_sequential_color_changes
C5_Witness ==
    /\ pc = "done"
    /\ input = In_sequential
    /\ Len(result) = 5
    /\ Tags(result[3]) = [current_fg |-> Some(Color32_RED),
                          current_bg |-> Some(Color32_YELLOW)]
    /\ Tags(result[4]) = [current_fg |-> Some(Color32_GREEN),
                          current_bg |-> Some(Color32_YELLOW)]
    /\ Tags(result[5]) = [current_fg |-> None, current_bg |-> None]

\* one run, uncoloured, with the given text
PlainRun(text) ==
    << [text |-> text, foreground_color |-> None, background_color |-> None] >>

\* C6: when the cleaned text has no CSI match, parse returns one uncoloured run
\* that is the whole cleaned text; an input without the character ESC (the
\* empty string too) comes back unchanged as that run.
C6_NoCsiOneRun ==
    pc = "done" =>
        /\ CsiStart(cleaned, 0) = NoMatch => result = PlainRun(cleaned)
        /\ (\A k \in 1..Len(input) : input[k] # ESC) => result = PlainRun(input)

\* C6's case: the characters backslash, x, 1, b, [31m come back unchanged
\* from a parser that the call before left coloured
C6_Witness ==
    /\ pc = "done"
    /\ input = In_escaped_x1b
    /\ entry_self.current_fg # None
    /\ result = PlainRun(In_escaped_x1b)


(* The inputs of SgrInputs: Sgr(prior) "a" Sgr(list under test) "b" gives   *)
(* the run "a", tagged with the fields before the sequence under test, and *)
(* the run "b", tagged with the fields after it.                           *)

UnderTestForm ==
    /\ pc = "done"
    /\ Len(result) = 2
    /\ result[1].text = <<"a">>
    /\ result[2].text = <<"b">>

\* the parameters of the second capture of the cleaned text
ParamsUnderTest ==
    CsiCapture(cleaned,
               CsiStart(cleaned, CsiCapture(cleaned, CsiStart(cleaned, 0)).end)).params

\* its tokens (those between the ';')
RECURSIVE Tokens(_, _)
Tokens(params, token) ==
    IF params = <<>> THEN <<token>>
    ELSE IF Head(params) = ";" THEN <<token>> \o Tokens(Tail(params), <<>>)
    ELSE Tokens(Tail(params), Append(token, Head(params)))

ListUnderTest == Tokens(ParamsUnderTest, <<>>)

Before == Tags(result[1])
After == Tags(result[2])

Uncoloured == [current_fg |-> None, current_bg |-> None]
RedOnGreen == [current_fg |-> Some(Color32_RED), current_bg |-> Some(Color32_GREEN)]

\* C7: inside a non-empty parameter list every empty token acts as code 0: it
\* resets foreground and background at its place in the scan.
C7_EmptyTokenResets ==
    [][pc = "sgr" /\ i < Len(codes) /\ codes[i + 1] = <<>>
          => Self' = Uncoloured /\ i' = i + 1]_vars

\* C8: ESC[m has the effect of ESC[0m: from any fields, both become none.
C8_EmptyListIsReset ==
    UnderTestForm /\ ParamsUnderTest \in {<<>>, <<"0">>} => After = Uncoloured

\* C8's case: ESC[m after red on green
C8_Witness ==
    /\ UnderTestForm
    /\ ParamsUnderTest = <<>>
    /\ Before = RedOnGreen
    /\ After = Uncoloured

\* a 38 or 48 that lacks its trailing tokens, as a whole parameter list: 38,
\* 38;5, 38;2, 38;2;r and 38;2;r;g
Truncated(l) ==
    /\ l[1] \in {<<"3", "8">>, <<"4", "8">>}
    /\ \/ Len(l) = 1
       \/ Len(l) = 2 /\ l[2] = <<"5">>
       \/ Len(l) \in 2..4 /\ l[2] = <<"2">>

ChangingCodes == (FgCodes \cup BgCodes) \ {38, 48}

IsU8(t) == TokenValue(t) \in 0..255

\* an extended colour code with all its tokens, one of them no value in 0..255
InvalidExtended(l) ==
    /\ Len(l) >= 3
    /\ l[1] \in {<<"3", "8">>, <<"4", "8">>}
    /\ \/ l[2] = <<"5">> /\ ~IsU8(l[3])
       \/ l[2] = <<"2">> /\ Len(l) >= 5 /\ ~(IsU8(l[3]) /\ IsU8(l[4]) /\ IsU8(l[5]))

\* the number of tokens it takes
ExtendedLen(l) == IF l[2] = <<"5">> THEN 3 ELSE 5

\* C10 in one iteration: the fields are kept and i passes the three (five) tokens
C10_Step ==
    pc = "sgr" /\ i < Len(codes) /\ InvalidExtended(SubSeq(codes, i + 1, Len(codes))) =>
        /\ Self' = Self
        /\ i' = i + ExtendedLen(SubSeq(codes, i + 1, Len(codes)))

\* the scan is past the sequence under test, with its text still to push
PastListUnderTest ==
    /\ pc = "scan"
    /\ CsiStart(cleaned, last_end) = NoMatch
    /\ Len(result) = 1
    /\ result[1].text = <<"a">>
    /\ SubSeq(cleaned, last_end + 1, Len(cleaned)) = <<"b">>

\* C10 over the whole list: it has the effect of the tokens that follow
C10_Resumes ==
    PastListUnderTest /\ InvalidExtended(ListUnderTest) =>
        Self = sgr_loop(SubSeq(ListUnderTest, ExtendedLen(ListUnderTest) + 1,
                               Len(ListUnderTest)), 0, Tags(result[1]))

\* C10: 38;5;n and 48;5;n with n no decimal value in 0..255, and 38;2;r;g;b and
\* 48;2;r;g;b with one of r, g, b no such value, leave the fields unchanged and
\* take all three (five) tokens: the dispatch goes on with the token after them.
C10_InvalidExtendedConsumed == [][C10_Step /\ C10_Resumes]_vars

\* C10's case: in 38;5;256;31 the 31 after the three tokens sets red
C10_Witness ==
    /\ UnderTestForm
    /\ ListUnderTest = << <<"3", "8">>, <<"5">>, <<"2", "5", "6">>, <<"3", "1">> >>
    /\ Before = Uncoloured
    /\ After = [current_fg |-> Some(Color32_RED), current_bg |-> None]

----------------------------------------------------------------------------
(* The colour codes, one by one, on the inputs of SpecColor.               *)

\* the decimal values of the tokens under test
ValuesUnderTest == [k \in 1..Len(ListUnderTest) |-> TokenValue(ListUnderTest[k])]

GreenOnRed == [current_fg |-> Some(Color32_GREEN), current_bg |-> Some(Color32_RED)]

\* C11: code 7 swaps the fields: the foreground after it is the background
\* before it and the background after it is the foreground before it, a none
\* included; red on green becomes green on red.
C11_ReverseSwaps ==
    UnderTestForm /\ ValuesUnderTest = <<7>> =>
        /\ After.current_fg = Before.current_bg
        /\ After.current_bg = Before.current_fg

\* C11's case: ESC[31;42m a ESC[7m b
C11_Witness ==
    /\ UnderTestForm
    /\ ValuesUnderTest = <<7>>
    /\ Before = RedOnGreen
    /\ After = GreenOnRed

\* the list under test is m;5;n
IsEightBit(m) ==
    /\ Len(ValuesUnderTest) = 3
    /\ ValuesUnderTest[1] = m
    /\ ValuesUnderTest[2] = 5
    /\ ValuesUnderTest[3] \in 0..255

\* the 4-bit foreground code of palette index k
FourBitFgCode(k) == IF k < 8 THEN 30 + k ELSE 90 + k - 8

\* C12: for k in 0..15 the 8-bit converter gives the colour of the 4-bit
\* converter, and 38;5;k sets the foreground that the 4-bit code of index k sets.
C12_SamePalette ==
    UnderTestForm /\ IsEightBit(38) /\ ValuesUnderTest[3] \in 0..15 =>
        LET k == ValuesUnderTest[3]
        IN  /\ ansi_256_to_egui(k) = ansi_color_to_egui(k)
            /\ After = sgr_loop(<<Dec(FourBitFgCode(k))>>, 0, Before)

\* the field that 38 (48) sets, after the list under test
FieldSet ==
    IF ValuesUnderTest[1] = 38 THEN After.current_fg ELSE After.current_bg

\* the field that 38 (48) leaves alone, after the list and before it
FieldKept ==
    IF ValuesUnderTest[1] = 38 THEN After.current_bg ELSE After.current_fg
FieldKeptBefore ==
    IF ValuesUnderTest[1] = 38 THEN Before.current_bg ELSE Before.current_fg

\* f(0) = 0, f(c) = 55 + 40 c
CubeChannel(c) == IF c = 0 THEN 0 ELSE 55 + 40 * c

\* the colour of the cube at index code
CubeColor(code) ==
    <<CubeChannel((code - 16) \div 36), CubeChannel(((code - 16) % 36) \div 6),
      CubeChannel((code - 16) % 6)>>

\* C13: for an index in 16..231 the 8-bit converter gives (f(r), f(g), f(b))
\* with idx = code - 16, r = idx / 36, g = (idx % 36) / 6, b = idx % 6; each
\* channel is one of 0, 95, 135, 175, 215, 255; 16 is (0,0,0), 21 is (0,0,255),
\* 196 is (255,0,0).
C13_ColorCube ==
    UnderTestForm /\ (IsEightBit(38) \/ IsEightBit(48))
                  /\ ValuesUnderTest[3] \in 16..231 =>
        LET code == ValuesUnderTest[3]
        IN  /\ FieldSet = Some(CubeColor(code))
            /\ ansi_256_to_egui(code) = CubeColor(code)
            /\ \A k \in 1..3 : FieldSet[1][k] \in {0, 95, 135, 175, 215, 255}
            /\ code = 16 => FieldSet = Some(<<0, 0, 0>>)
            /\ code = 21 => FieldSet = Some(<<0, 0, 255>>)
            /\ code = 196 => FieldSet = Some(<<255, 0, 0>>)

\* C13's case: 38;5;110, the cell r = 2, g = 3, b = 4
C13_Witness ==
    /\ UnderTestForm
    /\ ValuesUnderTest = <<38, 5, 110>>
    /\ After.current_fg = Some(<<135, 175, 215>>)

\* C14: for an index in 232..254 the 8-bit converter gives the gray
\* 8 + (code - 232) * 10 on all three channels; 255 gives 248, not the 238 of
\* that formula; every index 0..255 gives a colour.
C14_Grayscale ==
    UnderTestForm /\ (IsEightBit(38) \/ IsEightBit(48)) =>
        LET code == ValuesUnderTest[3]
            g == 8 + (code - 232) * 10
        IN  /\ code \in 232..254 => FieldSet = Some(<<g, g, g>>)
            /\ code = 255 => FieldSet = Some(<<248, 248, 248>>) /\ g = 238
            /\ FieldSet # None
            /\ \A k \in 1..3 : FieldSet[1][k] \in 0..255
            /\ FieldSet = Some(ansi_256_to_egui(code))

\* C14's case: 48;5;255
C14_Witness ==
    /\ UnderTestForm
    /\ ValuesUnderTest = <<48, 5, 255>>
    /\ After.current_bg = Some(<<248, 248, 248>>)

\* the list under test is m;2;r;g;b with r, g, b in 0..255
IsTrueColor(m) ==
    /\ Len(ValuesUnderTest) = 5
    /\ ValuesUnderTest[1] = m
    /\ ValuesUnderTest[2] = 2
    /\ \A k \in 3..5 : ValuesUnderTest[k] \in 0..255

\* C15: 38;2;r;g;b sets the foreground to (r, g, b) and 48;2;r;g;b sets the
\* background to (r, g, b); the other field is left as it was.
C15_TrueColorIdentity ==
    UnderTestForm /\ (IsTrueColor(38) \/ IsTrueColor(48)) =>
        /\ FieldSet = Some(<<ValuesUnderTest[3], ValuesUnderTest[4], ValuesUnderTest[5]>>)
        /\ FieldKept = FieldKeptBefore

\* C15's case: 38;2;255;105;180 after red on green
C15_Witness ==
    /\ UnderTestForm
    /\ ValuesUnderTest = <<38, 2, 255, 105, 180>>
    /\ Before = RedOnGreen
    /\ After = [current_fg |-> Some(<<255, 105, 180>>),
                current_bg |-> Some(Color32_GREEN)]

\* C16: 30..37 set the foreground to palette entry code - 30, 40..47 the
\* background to entry code - 40, 90..97 the foreground to entry code - 90 + 8,
\* 100..107 the background to entry code - 100 + 8; the other field is kept;
\* entries 0..4 are black, red, green, yellow and blue.
C16_FourBitCodes ==
    UnderTestForm /\ Len(ValuesUnderTest) = 1 =>
        LET c == ValuesUnderTest[1]
        IN  /\ c \in 30..37 =>
                After = [Before EXCEPT !.current_fg = Some(COLORS[c - 30 + 1])]
            /\ c \in 40..47 =>
                After = [Before EXCEPT !.current_bg = Some(COLORS[c - 40 + 1])]
            /\ c \in 90..97 =>
                After = [Before EXCEPT !.current_fg = Some(COLORS[c - 90 + 8 + 1])]
            /\ c \in 100..107 =>
                After = [Before EXCEPT !.current_bg = Some(COLORS[c - 100 + 8 + 1])]
            /\ c \in 30..34 =>
                After.current_fg = Some(<< <<0, 0, 0>>, <<255, 0, 0>>, <<0, 255, 0>>,
                                           <<255, 255, 0>>, <<0, 0, 255>> >>[c - 30 + 1])

\* C16's case: 104 after red on green
C16_Witness ==
    /\ UnderTestForm
    /\ ValuesUnderTest = <<104>>
    /\ Before = RedOnGreen
    /\ After = [current_fg |-> Some(Color32_RED), current_bg |-> Some(<<128, 128, 255>>)]

\* text holds a match of the CSI pattern whose final byte is not m
HasNonSgrCsi(text) ==
    \E p \in 0..(Len(text) - 1) :
        CsiEndAt(text, p) # NoMatch /\ text[CsiEndAt(text, p)] # "m"

\* the scan is at a CSI match whose final byte is not m
AtNonSgrCsi == pc = "scan" /\ HasCapture /\ Capture.final_byte # "m"

\* C17: a CSI sequence whose final byte is not m is passed without a change of
\* the fields, and none of its characters is in the text of a returned run.
C17_NonSgrCsiConsumed ==
    [][/\ AtNonSgrCsi => Self' = Self /\ last_end' = Capture.end
       /\ pc = "done" => \A k \in 1..Len(result) : ~HasNonSgrCsi(result[k].text)]_vars

\* C18: 39 sets the foreground to none and keeps the background, 49 sets the
\* background to none and keeps the foreground, 0 sets both to none.
C18_DefaultColors ==
    UnderTestForm /\ Len(ValuesUnderTest) = 1 =>
        /\ ValuesUnderTest[1] = 39 => After = [Before EXCEPT !.current_fg = None]
        /\ ValuesUnderTest[1] = 49 => After = [Before EXCEPT !.current_bg = None]
        /\ ValuesUnderTest[1] = 0 => After = Uncoloured

\* C18's case: 39 after red on green
C18_Witness ==
    /\ UnderTestForm
    /\ ValuesUnderTest = <<39>>
    /\ Before = RedOnGreen
    /\ After = [current_fg |-> None, current_bg |-> Some(Color32_GREEN)]

\* the list under test starts with an attribute code
AttributeFirst == pc = "done" /\ ValuesUnderTest[1] \in {1, 4, 22, 24, 27}

\* C19: the codes 1, 4, 22, 24 and 27 keep both fields and take one token: alone
\* they change nothing, a colour code after them applies (1;31 sets red), and
\* the text before and after the sequence is returned as it is.
C19_AttributesSkipped ==
    AttributeFirst =>
        /\ UnderTestForm
        /\ Len(ValuesUnderTest) = 1 => After = Before
        /\ Len(ValuesUnderTest) = 2 /\ ValuesUnderTest[2] = 31 =>
              After = [Before EXCEPT !.current_fg = Some(Color32_RED)]
        /\ Len(ValuesUnderTest) = 2 /\ ValuesUnderTest[2] = 42 =>
              After = [Before EXCEPT !.current_bg = Some(Color32_GREEN)]

\* C19's case: 1;31 after a green background
C19_Witness ==
    /\ UnderTestForm
    /\ ValuesUnderTest = <<1, 31>>
    /\ Before = [current_fg |-> None, current_bg |-> Some(Color32_GREEN)]
    /\ After = RedOnGreen

\* input[a+1..b] is an OSC sequence with its terminator: ESC ], characters
\* other than BEL and ESC, then BEL or ESC \
IsTerminatedOsc(a, b) ==
    /\ a + 3 <= b /\ b <= Len(input)
    /\ input[a + 1] = ESC /\ input[a + 2] = "]"
    /\ \/ /\ input[b] = BEL
          /\ \A k \in (a + 3)..(b - 1) : input[k] \notin {BEL, ESC}
       \/ /\ a + 4 <= b /\ input[b - 1] = ESC /\ input[b] = "\\"
          /\ \A k \in (a + 3)..(b - 2) : input[k] \notin {BEL, ESC}

\* text holds no ESC
NoEsc(text) == \A k \in 1..Len(text) : text[k] # ESC

\* C20: an OSC sequence terminated by BEL or by ESC \ is removed whole, with
\* its terminator, before the scan: the cleaned text is what the parts before
\* and after it leave, joined; between two texts without escape it gives no
\* text, no colour and no split, the result being the one uncoloured run of
\* the two texts joined.
C20_OscRemovedWhole ==
    pc = "done" =>
        \A a \in 0..Len(input), b \in 0..Len(input) :
            IsTerminatedOsc(a, b) =>
                LET pre == SubSeq(input, 1, a)
                    post == SubSeq(input, b + 1, Len(input))
                IN  /\ cleaned = RemoveOtherEscFrom(RemoveOscFrom(pre, 0)
                                                    \o RemoveOscFrom(post, 0), 0)
                    /\ NoEsc(pre) /\ NoEsc(post) => result = PlainRun(pre \o post)

\* C20's case: B, the sequence ended by ESC \, A
C20_Witness ==
    /\ pc = "done"
    /\ input = <<"B">> \o OscSt \o <<"A">>
    /\ IsTerminatedOsc(1, 8)
    /\ result = PlainRun(<<"B", "A">>)

----------------------------------------------------------------------------
(* Stripping, case by case.                                                *)

\* ESC ] at offset a of the input, and neither BEL nor ESC after it
IsUnterminatedOsc(a) ==
    /\ a + 2 <= Len(input)
    /\ input[a + 1] = ESC /\ input[a + 2] = "]"
    /\ \A k \in (a + 3)..Len(input) : input[k] \notin {BEL, ESC}

\* text holds ESC ]
HasOscIntroducer(text) ==
    \E k \in 1..(Len(text) - 1) : text[k] = ESC /\ text[k + 1] = "]"

\* C21: an OSC sequence without terminator is stripped to the end of the
\* input: the cleaned text and the runs are those of the text before ESC ],
\* and no run holds its introducer (an ESC ] in a run is one that the text
\* before it leaves).
C21_UnterminatedOscStripped ==
    pc = "done" =>
        \A a \in 0..Len(input) :
            IsUnterminatedOsc(a) =>
                LET pre == SubSeq(input, 1, a)
                IN  /\ cleaned = strip_non_sgr_sequences(pre)
                    /\ result = parse(NewParser, pre).result
                    /\ NoEsc(pre) => result = PlainRun(pre)
                    /\ \/ HasOscIntroducer(strip_non_sgr_sequences(pre))
                       \/ \A k \in 1..Len(result) : ~HasOscIntroducer(result[k].text)

\* C21's case: Start, then ESC ] 0;No terminatorText
C21_Witness ==
    /\ pc = "done"
    /\ input = In_osc_unterminated
    /\ IsUnterminatedOsc(5)
    /\ result = PlainRun(<<"S", "t", "a", "r", "t">>)

\* ESC and one of @, A..Z, ^, _ at offset a of the input
IsOtherEscape(a) ==
    /\ a + 2 <= Len(input)
    /\ input[a + 1] = ESC
    /\ input[a + 2] \in {"@", "^", "_"} \cup UpperLetters

\* [ and ] lie between Z and ^, outside the class
BracketsExcluded ==
    /\ "[" \notin OtherEscBytes /\ "]" \notin OtherEscBytes
    /\ \A p \in 0..Len(input) :
          p + 2 <= Len(input) /\ input[p + 1] = ESC /\ input[p + 2] \in {"[", "]"}
              => OtherEscEndAt(input, p) = NoMatch

\* C22: ESC followed by one of @, A..Z, ^, _ is removed with that character:
\* the cleaned text is what the parts before and after the pair leave, joined;
\* between two texts without escape it changes no colour, the result being the
\* one uncoloured run of the two texts.  ESC [ and ESC ] are no match.
C22_OtherEscapeRemoved ==
    pc = "done" =>
        /\ BracketsExcluded
        /\ \A a \in 0..Len(input) :
              IsOtherEscape(a) =>
                  LET pre == SubSeq(input, 1, a)
                      post == SubSeq(input, a + 3, Len(input))
                  IN  /\ cleaned = strip_non_sgr_sequences(pre)
                                       \o strip_non_sgr_sequences(post)
                      /\ NoEsc(pre) /\ NoEsc(post) => result = PlainRun(pre \o post)

\* C22's case: a character, then ESC A
C22_Witness ==
    /\ pc = "done"
    /\ input = <<".", ESC, "A">>
    /\ IsOtherEscape(1)
    /\ result = PlainRun(<<".">>)

----------------------------------------------------------------------------
(* The call as a whole.                                                    *)

\* an Option<Color32>
IsOptionColor(c) ==
    c = None \/ (Len(c) = 1 /\ Len(c[1]) = 3 /\ \A k \in 1..3 : c[1][k] \in 0..255)

\* a vector of runs
IsRunList(res) ==
    /\ Len(res) >= 1
    /\ \A k \in 1..Len(res) :
          /\ DOMAIN res[k] = {"text", "foreground_color", "background_color"}
          /\ Len(res[k].text) >= 0
          /\ IsOptionColor(res[k].foreground_color)
          /\ IsOptionColor(res[k].background_color)

\* C23: parse returns a run list whatever the input: every index and every
\* range used is inside its vector or text, every iteration of the token scan
\* ends with an index inside the vector and with colours, and what the call
\* returns is a vector of runs.
C23_ParseReturnsRuns ==
    /\ pc = "sgr" => codes # <<>> /\ i >= 0 /\ i <= Len(codes)
    /\ pc = "sgr" /\ i < Len(codes) =>
          /\ sgr_iteration(codes, i, Self).i \in (i + 1)..Len(codes)
          /\ IsOptionColor(sgr_iteration(codes, i, Self).self.current_fg)
          /\ IsOptionColor(sgr_iteration(codes, i, Self).self.current_bg)
    /\ pc = "scan" => last_end >= 0 /\ last_end <= Len(cleaned)
    /\ pc = "scan" /\ HasCapture =>
          /\ last_end <= Capture.start
          /\ Capture.start < Capture.end
          /\ Capture.end <= Len(cleaned)
    /\ IsOptionColor(current_fg) /\ IsOptionColor(current_bg)
    /\ pc = "done" => IsRunList(result)

\* C23's case: the truncated, out-of-range list 48;2;256
C23_Witness ==
    /\ UnderTestForm
    /\ ListUnderTest = << <<"4", "8">>, <<"2">>, <<"2", "5", "6">> >>
    /\ IsRunList(result)
    /\ After = Before

\* C25: every run is a maximal span of one colour state: two runs that are
\* neighbours in the result differ in foreground or background.
C25_RunsAreMaximal ==
    pc = "done" =>
        \A k \in 1..(Len(result) - 1) : Tags(result[k]) # Tags(result[k + 1])

\* input holds a CSI sequence from offset a to offset b: ESC [, parameter
\* characters, a final byte
IsCsi(a, b) ==
    /\ a + 3 <= b /\ b <= Len(input)
    /\ input[a + 1] = ESC /\ input[a + 2] = "["
    /\ \A k \in (a + 3)..(b - 1) : input[k] \in DigitChars \cup {";"}
    /\ input[b] \in UpperLetters \cup LowerLetters \cup {"@"}

\* the scan of cleaned, from last_end on, meets the sequence that lies at
\* offsets c to d: it is not past c without being past d, its next match begins
\* at or before c, and that match is the sequence itself or does not touch it
ScanMeets(c, d, params, final_byte) ==
    /\ last_end <= c \/ last_end >= d
    /\ pc = "scan" /\ last_end <= c => HasCapture /\ Capture.start <= c
    /\ pc = "scan" /\ HasCapture =>
          \/ Capture.end <= c
          \/ Capture.start >= d
          \/ /\ Capture.start = c /\ Capture.end = d
             /\ Capture.params = params /\ Capture.final_byte = final_byte

\* C29: stripping removes no byte of a CSI sequence: the cleaned text is
\* what stripping leaves of the text before the sequence, the sequence itself,
\* and what stripping leaves of the text after it, whatever OSC or other-escape
\* sequences surround it, and the CSI scan matches the sequence there.
C29_CsiSurvivesStripping ==
    pc \in {"scan", "sgr", "done"} =>
        \A a \in 0..Len(input) : \A b \in (a + 3)..Len(input) :
            IsCsi(a, b) =>
                LET pre == SubSeq(input, 1, a)
                    csi == SubSeq(input, a + 1, b)
                    post == SubSeq(input, b + 1, Len(input))
                    c == Len(strip_non_sgr_sequences(pre))
                IN  /\ cleaned = strip_non_sgr_sequences(pre) \o csi
                                    \o strip_non_sgr_sequences(post)
                    /\ SubSeq(cleaned, c + 1, c + Len(csi)) = csi
                    /\ pc \in {"scan", "sgr"} =>
                          ScanMeets(c, c + Len(csi), SubSeq(input, a + 3, b - 1), input[b])

\* C29's case: an OSC sequence without terminator directly before an SGR
\* sequence, whose colour the text after it has
C29_Witness ==
    /\ pc = "done"
    /\ input = <<ESC, "]", "x">> \o SgrRed \o <<".">>
    /\ cleaned = SgrRed \o <<".">>
    /\ result = <<ColoredText(<<".">>, [current_fg |-> Some(ansi_color_to_egui(1)),
                                         current_bg |-> None])>>

\* the CSI scan has not begun
ScanNotBegun == last_end = 0 /\ result = <<>>

\* C30: the cleaned text is one removal of the OSC sequences over the whole
\* input followed by one removal of the other-escape sequences over what that
\* leaves, in that order and each once, and only then the CSI scan runs: the
\* scan has not begun before the call, and from its first step to the last the
\* text it scans is that cleaned text, unchanged.
C30_OscThenOtherThenScan ==
    [][ /\ pc = "idle" => ScanNotBegun
        /\ pc \in {"scan", "sgr", "done"} =>
              cleaned = RemoveOtherEscFrom(RemoveOscFrom(input, 0), 0)
        /\ pc \in {"scan", "sgr"} => cleaned' = cleaned /\ input' = input
      ]_vars

\* C30's case: the other-escape removal leaves ESC ] behind, which a removal
\* of the OSC sequences after it, or a second one, would take
C30_Witness ==
    /\ pc = "done"
    /\ input = <<ESC, ESC, "A", "]", ".">>
    /\ cleaned = <<ESC, "]", ".">>
    /\ RemoveOscFrom(cleaned, 0) = <<>>

\* the token at index i of the scan
TokenAtI == codes[i + 1]

\* the values of the tokens that reach a call of the 4-bit converter
FourBitCodes == (30..37) \cup (40..47) \cup (90..97) \cup (100..107)

\* the scan is at a token for which the last arm calls the 4-bit converter
AtFourBitCall ==
    /\ pc = "sgr" /\ i < Len(codes)
    /\ TokenValue(TokenAtI) \in FourBitCodes

\* the field the code writes
WrittenField(self, v) ==
    IF v \in (30..37) \cup (90..97) THEN self.current_fg ELSE self.current_bg

\* C31: every call of the 4-bit converter that the dispatcher makes passes an
\* index in 0..15, whatever the parameter string: the field written is the
\* entry of the palette at that index, never the fallback of the converter.
C31_FourBitIndexInRange ==
    AtFourBitCall =>
        LET v == TokenValue(TokenAtI)
        IN  /\ color_index(v) \in 0..15
            /\ WrittenField(sgr_iteration(codes, i, Self).self, v)
                   = Some(COLORS[color_index(v) + 1])

\* C31's case: 107, the last code of the last range, has written the last
\* entry of the palette
C31_Witness ==
    /\ pc = "sgr"
    /\ codes = << <<"1", "0", "7">> >>
    /\ i = 1
    /\ color_index(107) = 15
    /\ current_bg = Some(COLORS[16])

\* the values of the codes the dispatcher knows
KnownCodes == {0, 1, 4, 7, 22, 24, 27, 38, 39, 48, 49} \cup FourBitCodes

\* the token at index k of the list cs is none of the codes: a number that is
\* no code, or 38 or 48 before a mode that is neither 5 nor 2
IsUnknownAt(cs, k) ==
    /\ k < Len(cs)
    /\ cs[k + 1] # <<>>
    /\ \/ TokenValue(cs[k + 1]) \notin KnownCodes
       \/ /\ TokenValue(cs[k + 1]) \in {38, 48}
          /\ k + 1 < Len(cs)
          /\ cs[k + 2] \notin { <<"5">>, <<"2">> }

\* C32: a token that is none of the codes (2, 5, a number above 255, 38
\* before a mode that is neither 5 nor 2) changes neither field and takes one
\* token: the scan goes on at the token after it, and a list that begins with
\* such a token has the effect of the list without it.
C32_UnknownTokenIgnored ==
    /\ pc = "sgr" /\ IsUnknownAt(codes, i) =>
          /\ sgr_iteration(codes, i, Self).self = Self
          /\ sgr_iteration(codes, i, Self).i = i + 1
    /\ UnderTestForm /\ IsUnknownAt(ListUnderTest, 0) =>
          After = sgr_loop(Tail(ListUnderTest), 0, Before)

\* C32's case: 38;7;31 after red on green: the 38 is passed over, the 7 swaps
\* and the 31 sets the foreground
C32_Witness ==
    /\ UnderTestForm
    /\ ListUnderTest = << <<"3", "8">>, <<"7">>, <<"3", "1">> >>
    /\ Before = RedOnGreen
    /\ After = [current_fg |-> Some(Color32_RED), current_bg |-> Some(Color32_RED)]

\* the list has a token, its tokens are not empty and none is 38 or 48
IsPlainList(l) ==
    /\ l # <<>>
    /\ \A k \in 1..Len(l) : l[k] # <<>> /\ TokenValue(l[k]) \notin {38, 48}

\* ESC [ t1 m ... ESC [ tn m: one sequence for each token of the list
RECURSIVE SeparateSequences(_)
SeparateSequences(l) ==
    IF l = <<>> THEN <<>>
    ELSE <<ESC, "[">> \o Head(l) \o <<"m">> \o SeparateSequences(Tail(l))

\* the fields after the tokens of the list, each dispatched as a list of its
\* own, in the order of the list
RECURSIVE OneByOne(_, _)
OneByOne(l, self) ==
    IF l = <<>> THEN self
    ELSE OneByOne(Tail(l), process_sgr_sequence(self, Head(l)))

\* the input up to the sequence under test
InputBeforeListUnderTest ==
    SubSeq(cleaned, 1, CsiStart(cleaned, CsiCapture(cleaned, CsiStart(cleaned, 0)).end))

\* C33: a list t1;...;tn of tokens that are not empty, with no 38 and no 48,
\* changes the fields as the n sequences ESC[t1m ... ESC[tnm in that order do:
\* the tokens act left to right, a later one overriding an earlier one on the
\* same field, and parse gives the same runs for the two inputs.
C33_ListIsSequenceOfSingles ==
    UnderTestForm /\ IsPlainList(ListUnderTest) =>
        /\ After = OneByOne(ListUnderTest, Before)
        /\ result = parse(NewParser,
                          InputBeforeListUnderTest
                              \o SeparateSequences(ListUnderTest) \o <<"b">>).result

\* C33's case: 31;42;31 after no colour leaves red on green, 42 having set
\* the background between the two 31
C33_Witness ==
    /\ UnderTestForm
    /\ ListUnderTest = << <<"3", "1">>, <<"4", "2">>, <<"3", "1">> >>
    /\ Before = Uncoloured
    /\ After = RedOnGreen
    /\ SeparateSequences(ListUnderTest) = SgrRed \o SgrOnGreen \o SgrRed

\* text holds ESC and a character of the other-escape class after it
HasOtherEscape(text) ==
    \E k \in 1..(Len(text) - 1) :
        text[k] = ESC /\ text[k + 1] \in {"@", "^", "_"} \cup UpperLetters

\* C34: stripping is idempotent: the cleaned text holds no OSC sequence and
\* no other-escape sequence, and stripping it again leaves it as it is.
C34_StripIdempotent ==
    pc \in {"scan", "sgr", "done"} =>
        /\ ~HasOscIntroducer(cleaned)
        /\ ~HasOtherEscape(cleaned)
        /\ strip_non_sgr_sequences(cleaned) = cleaned

\* the CSI match the scan is at lies in the input as it lies in the cleaned
\* text: at some offset a the input holds its characters, one after the other,
\* and what stripping leaves of the input before a is the cleaned text before
\* the match
CaptureIsContiguousInInput ==
    \E a \in 0..Len(input) :
        /\ IsCsi(a, a + (Capture.end - Capture.start))
        /\ SubSeq(input, a + 1, a + (Capture.end - Capture.start))
              = SubSeq(cleaned, Capture.start + 1, Capture.end)
        /\ strip_non_sgr_sequences(SubSeq(input, 1, a))
              = SubSeq(cleaned, 1, Capture.start)

\* C35: every CSI sequence the scan matches occupies contiguous characters of
\* the input: no removal joins an ESC before the removed sequence with the
\* text after it into a CSI sequence.
C35_CsiIsContiguousInInput ==
    pc = "scan" /\ HasCapture => CaptureIsContiguousInInput

\* the token without its leading zeros (0 for a token of zeros only)
RECURSIVE WithoutLeadingZeros(_)
WithoutLeadingZeros(t) ==
    IF Len(t) > 1 /\ Head(t) = "0" THEN WithoutLeadingZeros(Tail(t)) ELSE t

\* C36: what a decimal token does depends on its value only: a token with
\* leading zeros acts as the code without them (00 as 0, 07 as 7, 039 as 39,
\* 049 as 49, 031 as 31).
C36_LeadingZerosIgnored ==
    UnderTestForm /\ Len(ListUnderTest) = 1 /\ TokenValue(ListUnderTest[1]) # NoMatch =>
        After = process_sgr_sequence(Before, WithoutLeadingZeros(ListUnderTest[1]))

\* C37: parse returns at least one run for every input, the empty input and
\* an input of escape sequences only included: where no text was pushed, the
\* one run returned has the whole cleaned text and no colour.
C37_AtLeastOneRun ==
    pc = "done" =>
        /\ Len(result) >= 1
        /\ (cleaned = <<>> \/ input = <<>>) =>
              result = << [text |-> <<>>, foreground_color |-> None,
                           background_color |-> None] >>

\* C37's case: an input that is one OSC sequence, of which nothing is left
C37_Witness ==
    /\ pc = "done"
    /\ input = <<ESC, "]", BEL>>
    /\ cleaned = <<>>
    /\ Len(result) = 1
    /\ result[1].text = <<>>

\* the two colours of the fields, exchanged
Exchanged(self) == [current_fg |-> self.current_bg, current_bg |-> self.current_fg]

\* C38: reverse video is an exchange of the two fields and nothing is
\* remembered of it: 7;7 leaves the fields as they were, 27 after 7 leaves
\* them exchanged (and a 7 after it exchanges them once more), and a colour
\* code after 7 writes the field it names: 31 the foreground, 42 the
\* background.
C38_ReverseIsPlainSwap ==
    UnderTestForm =>
        /\ ValuesUnderTest = <<7, 7>> => After = Before
        /\ ValuesUnderTest = <<7, 27>> => After = Exchanged(Before)
        /\ ValuesUnderTest = <<7, 27, 7>> => After = Before
        /\ ValuesUnderTest = <<7, 31>> =>
              After = [current_fg |-> Some(Color32_RED), current_bg |-> Before.current_fg]
        /\ ValuesUnderTest = <<7, 42>> =>
              After = [current_fg |-> Before.current_bg, current_bg |-> Some(Color32_GREEN)]

\* C38's case: 7;27 after red on green leaves green on red
C38_Witness ==
    /\ UnderTestForm
    /\ ValuesUnderTest = <<7, 27>>
    /\ Before = RedOnGreen
    /\ After = GreenOnRed

\* a value that a u8 holds
InU8(x) == x \in 0..255

\* the index n of 38;5;n or 48;5;n that the token at i is about to convert, or
\* NoMatch where the token at i is no such code with an index in u8
IndexAtI ==
    IF /\ pc = "sgr" /\ i + 2 < Len(codes)
       /\ TokenAtI \in { <<"3", "8">>, <<"4", "8">> }
       /\ codes[i + 2] = <<"5">>
       /\ InU8(TokenValue(codes[i + 3]))
    THEN TokenValue(codes[i + 3])
    ELSE NoMatch

\* code - 16, c * 40 and 55 + c * 40 for each of the three components stay in
\* u8, computed without a bound
CubeInU8(code) ==
    /\ InU8(code - 16)
    /\ \A c \in {(code - 16) \div 36, ((code - 16) % 36) \div 6, (code - 16) % 6} :
          /\ c \in 0..5
          /\ c # 0 => InU8(c * 40) /\ InU8(55 + c * 40)
          /\ convert_component(c) = CubeChannel(c)

\* code - 232, its tenfold and 8 more stay in u8
GrayInU8(code) ==
    /\ InU8(code - 232)
    /\ InU8((code - 232) * 10)
    /\ InU8(8 + (code - 232) * 10)

\* the index of the palette for a 4-bit code, computed without a bound, with
\* the difference it is computed from
FourBitBase(v) ==
    IF v \in 30..37 THEN 30 ELSE IF v \in 40..47 THEN 40
    ELSE IF v \in 90..97 THEN 90 ELSE 100
FourBitOffset(v) == IF v >= 90 THEN 8 ELSE 0

\* C39: no u8 arithmetic of the converters or of the dispatcher leaves
\* 0..255 on a value that reaches it: code - 16 on 16..231, 55 + c * 40 on
\* c in 1..5, 8 + (code - 232) * 10 on 232..254, and code - 30, code - 40,
\* code - 90 + 8, code - 100 + 8 in their ranges; what the program computes
\* in u8 is what the same expression gives without a bound.
C39_NoU8Overflow ==
    /\ IndexAtI \in 16..231 =>
          /\ CubeInU8(IndexAtI)
          /\ ansi_256_to_egui(IndexAtI) = CubeColor(IndexAtI)
    /\ IndexAtI \in 232..254 =>
          /\ GrayInU8(IndexAtI)
          /\ ansi_256_to_egui(IndexAtI)
                = <<8 + (IndexAtI - 232) * 10, 8 + (IndexAtI - 232) * 10,
                    8 + (IndexAtI - 232) * 10>>
    /\ AtFourBitCall =>
          LET v == TokenValue(TokenAtI)
          IN  /\ InU8(v - FourBitBase(v))
              /\ InU8(v - FourBitBase(v) + FourBitOffset(v))
              /\ color_index(v) = v - FourBitBase(v) + FourBitOffset(v)
    /\ \A f \in {current_fg, current_bg} :
          f # None => \A k \in 1..3 : InU8(f[1][k])

\* C39's case: 38;5;231, the last index of the cube, where code - 16 is 215
\* and each component 55 + 5 * 40 = 255, has set the foreground
C39_Witness ==
    /\ pc = "sgr"
    /\ codes = << <<"3", "8">>, <<"5">>, <<"2", "3", "1">> >>
    /\ i = Len(codes)
    /\ current_fg = Some(<<255, 255, 255>>)

\* what is left of the token scan: the tokens from i on
ScanVariant(k) == Len(codes) - k

\* C28: the token scan ends for every parameter string: in every branch an
\* iteration leaves an index at least one above the index it began with and
\* not beyond the end of the vector, so the number of tokens left falls with
\* every iteration and is never negative.
C28_ScanTerminates ==
    pc = "sgr" =>
        /\ ScanVariant(i) >= 0
        /\ i < Len(codes) =>
              /\ sgr_iteration(codes, i, Self).i >= i + 1
              /\ ScanVariant(sgr_iteration(codes, i, Self).i) < ScanVariant(i)
              /\ ScanVariant(sgr_iteration(codes, i, Self).i) >= 0

\* C28's case: the scan of 38;5, a truncated code and an unknown one, at its end
C28_Witness ==
    /\ pc = "sgr"
    /\ codes = << <<"3", "8">>, <<"5">> >>
    /\ i = Len(codes)

----------------------------------------------------------------------------
(* The free functions.                                                     *)

\* the function named has returned
Returned(function) == pc = "returned" /\ call.function = function

\* C24: ansi_to_rich_text(input) returns what parse(input) on a new parser
\* returns, run by run: as many elements, in the same order, each with the
\* text of its run, the foreground set when the run has one and the
\* background set when the run has one.
C24_OneShotIsFreshParse ==
    Returned("ansi_to_rich_text") =>
        LET runs == parse(NewParser, call.input).result
        IN  /\ Len(ret) = Len(runs)
            /\ \A k \in 1..Len(runs) :
                  /\ ret[k].text = runs[k].text
                  /\ ret[k].color = runs[k].foreground_color
                  /\ ret[k].background_color = runs[k].background_color

\* C24's case: one run, red on yellow
C24_Witness ==
    /\ Returned("ansi_to_rich_text")
    /\ call.input = In_fg_bg
    /\ Len(ret) = 1
    /\ ret[1].color = Some(Color32_RED)
    /\ ret[1].background_color = Some(Color32_YELLOW)

\* "5;" and digits with a value in 0..255
IsEightBitSequence(sequence) ==
    /\ Len(sequence) >= 3
    /\ sequence[1] = "5" /\ sequence[2] = ";"
    /\ TokenValue(SubSeq(sequence, 3, Len(sequence))) \in 0..255

\* text with the colour c as background or as foreground
Colored(text, c, is_background) ==
    [text |-> text,
     color |-> IF is_background THEN None ELSE Some(c),
     background_color |-> IF is_background THEN Some(c) ELSE None]

\* C26: parse_8bit_color returns Some exactly when the sequence is "5;" and
\* digits with a value in 0..255 ("5;256" and "4;1" give None); the colour of
\* that index is then on the text, as background if is_background and as
\* foreground otherwise.
C26_Parse8bitColor ==
    Returned("parse_8bit_color") =>
        /\ ret # None <=> IsEightBitSequence(call.sequence)
        /\ call.sequence \in { <<"5", ";", "2", "5", "6">>, <<"4", ";", "1">> }
              => ret = None
        /\ ret # None =>
              ret = Some(Colored(call.text,
                                 ansi_256_to_egui(TokenValue(SubSeq(call.sequence, 3,
                                                                    Len(call.sequence)))),
                                 call.is_background))

\* C26's case: "5;208" as background
C26_Witness ==
    /\ Returned("parse_8bit_color")
    /\ call.sequence = <<"5", ";", "2", "0", "8">>
    /\ call.is_background
    /\ ret = Some([text |-> call.text, color |-> None,
                   background_color |-> Some(<<255, 135, 0>>)])

\* the values of "2;r;g;b", or <<>> for a sequence of another form
TrueColorChannels(sequence) ==
    LET t == Tokens(sequence, <<>>)
    IN  IF Len(t) = 4 /\ t[1] = <<"2">> /\ TokenValue(t[2]) \in 0..255
           /\ TokenValue(t[3]) \in 0..255 /\ TokenValue(t[4]) \in 0..255
        THEN <<TokenValue(t[2]), TokenValue(t[3]), TokenValue(t[4])>>
        ELSE <<>>

\* C27: parse_24bit_color returns Some exactly when the sequence is "2;r;g;b"
\* with r, g, b decimal values in 0..255, and None when a channel is above 255
\* or the mode is not 2 ("2;256;0;0", "2;0;0;256", "5;255;0;0").
C27_Parse24bitColor ==
    Returned("parse_24bit_color") =>
        /\ ret # None <=> TrueColorChannels(call.sequence) # <<>>
        /\ call.sequence \in { <<"2", ";", "2", "5", "6", ";", "0", ";", "0">>,
                               <<"2", ";", "0", ";", "0", ";", "2", "5", "6">>,
                               <<"5", ";", "2", "5", "5", ";", "0", ";", "0">> }
              => ret = None
        /\ ret # None =>
              ret = Some(Colored(call.text, TrueColorChannels(call.sequence),
                                 call.is_background))

\* C27's case: "2;255;105;0" as foreground
C27_Witness ==
    /\ Returned("parse_24bit_color")
    /\ call.sequence = <<"2", ";", "2", "5", "5", ";", "1", "0", "5", ";", "0">>
    /\ ~call.is_background
    /\ ret = Some([text |-> call.text, color |-> Some(<<255, 105, 0>>),
                   background_color |-> None])

====
